---- MODULE Spec2Model ----
(***************************************************************************)
(* Chain storage engine of store/src/store.rs: ChainKVStore (the read      *)
(* facade with its two LRU caches) and DefaultStoreBatch (the write        *)
(* batch), over a columnar key-value backend.                              *)
(*                                                                         *)
(* Indices are 0-based as in the source; a TLA+ sequence s holds the       *)
(* source's element i at s[i + 1].                                         *)
(***************************************************************************)
EXTENDS Integers, Sequences, FiniteSets, TLC

(***************************************************************************)
(* Bounds of the model.                                                    *)
(***************************************************************************)
\* longest batch (number of StoreBatch calls between new_batch and commit)
MaxBatchOps == 1
\* StoreConfig.header_cache_size of the store under check
HeaderCacheSize == 1
\* StoreConfig.cell_output_cache_size of the store under check
CellOutputCacheSize == 1
\* largest output index a reader asks for
MaxOutputIndex == 1
\* bits of a Capacity (64 in the code)
CapacityBits == 6
\* largest StoreConfig.header_cache_size of the stores whose eviction is checked
MaxLruSize == 2
\* reader threads inside get_block_header at one time
MaxReaders == 2

(***************************************************************************)
(* Option<T>                                                               *)
(***************************************************************************)
None == <<>>
Some(x) == <<x>>
IsSome(o) == o # None
Unwrap(o) == o[1]
\* the outcome of an expect() that fails
Panic(msg) == <<"panic", msg>>
IsPanic(o) == Len(o) = 2

(***************************************************************************)
(* Columns (defined in store/src/lib.rs, imported by store.rs).             *)
(***************************************************************************)
COLUMN_INDEX == "COLUMN_INDEX"
COLUMN_BLOCK_HEADER == "COLUMN_BLOCK_HEADER"
COLUMN_BLOCK_BODY == "COLUMN_BLOCK_BODY"
COLUMN_BLOCK_UNCLE == "COLUMN_BLOCK_UNCLE"
COLUMN_META == "COLUMN_META"
COLUMN_TRANSACTION_ADDR == "COLUMN_TRANSACTION_ADDR"
COLUMN_BLOCK_EXT == "COLUMN_BLOCK_EXT"
COLUMN_BLOCK_PROPOSAL_IDS == "COLUMN_BLOCK_PROPOSAL_IDS"
COLUMN_BLOCK_EPOCH == "COLUMN_BLOCK_EPOCH"
COLUMN_EPOCH == "COLUMN_EPOCH"
COLUMN_CELL_META == "COLUMN_CELL_META"
COLUMN_CELL_SET == "COLUMN_CELL_SET"
COLUMN_UNCLES == "COLUMN_UNCLES"

Columns ==
    { COLUMN_INDEX, COLUMN_BLOCK_HEADER, COLUMN_BLOCK_BODY, COLUMN_BLOCK_UNCLE,
      COLUMN_META, COLUMN_TRANSACTION_ADDR, COLUMN_BLOCK_EXT,
      COLUMN_BLOCK_PROPOSAL_IDS, COLUMN_BLOCK_EPOCH, COLUMN_EPOCH,
      COLUMN_CELL_META, COLUMN_CELL_SET, COLUMN_UNCLES }

META_TIP_HEADER_KEY == <<"ascii", "TIP_HEADER">>
META_CURRENT_EPOCH_KEY == <<"ascii", "CURRENT_EPOCH">>

(***************************************************************************)
(* Byte strings.  A byte string is modelled by a tagged tuple that keeps   *)
(* its layout apart from its content, so that a value written in one       *)
(* layout and read in another does not decode.                             *)
(***************************************************************************)
\* H256::as_bytes: the raw 32 bytes
as_bytes(hash) == <<"h256", hash>>
\* H256::from_slice(..).expect("db safe access")
from_slice(raw) == IF raw[1] = "h256" THEN raw[2] ELSE "panic: db safe access"
\* u64::to_le_bytes: 8 bytes, little endian
to_le_bytes(number) == <<"u64le", number>>
\* bincode::deserialize::<BlockNumber>: 8 bytes, little endian
deserialize_number(raw) ==
    IF raw[1] = "u64le" THEN raw[2] ELSE "panic: deserialize block number"
\* bincode::serialize / deserialize of a CellMeta
serialize(item) == <<"bincode", item>>
deserialize(raw) == IF raw[1] = "bincode" THEN raw[2] ELSE "panic: deserialize"
\* CellKey::calculate(tx_hash, index): tx_hash || index as le u32
CellKey_calculate(tx_hash, index) == <<"cellkey", tx_hash, index>>
\* the empty value &[]
EmptyBytes == <<"bytes", 0>>

\* ckb_protos::$type::build(builder, data); builder.finished_data()
flatbuffers_build(type, data) ==
    IF type = "StoredBlockBody"
    THEN <<"fb", type,
           [ tx_hashes |-> [i \in 1..Len(data) |-> data[i].hash],
             transactions |-> data ]>>
    ELSE <<"fb", type, data>>
\* flatbuffers::get_root::<ckb_protos::$type>(slice)
flatbuffers_get_root(type, slice) ==
    IF slice[1] = "fb" /\ slice[2] = type THEN slice[3] ELSE "panic: decode"
\* StoredBlockBody -> Vec<Transaction>
StoredBlockBody_into(root) == root.transactions
\* StoredBlockBody::tx_hashes()
StoredBlockBody_tx_hashes(root) == root.tx_hashes
\* StoredBlockBody::transaction(i) -> Option<Transaction>
StoredBlockBody_transaction(root, i) ==
    IF i < Len(root.transactions) THEN Some(root.transactions[i + 1]) ELSE None
\* StoredBlockBody::output(i, j) -> Option<CellOutput>
StoredBlockBody_output(root, i, j) ==
    IF i < Len(root.transactions) /\ j < Len(root.transactions[i + 1].outputs)
    THEN Some(root.transactions[i + 1].outputs[j + 1])
    ELSE None

(***************************************************************************)
(* The blocks the writers hand to the store.  b1 and b2 are two blocks of  *)
(* the same height (a fork): they share the transaction t1 and the uncle   *)
(* u1, and b2 carries t1 twice.                                            *)
(***************************************************************************)
CellOutput(capacity, data) == [capacity |-> capacity, data_hash |-> data]
\* the previous output of the one input of a cellbase
NullOutPoint == "null"
Transaction(hash, inputs, outputs) == [hash |-> hash, inputs |-> inputs, outputs |-> outputs]
\* Transaction::is_cellbase
is_cellbase(tx) == Len(tx.inputs) = 1 /\ tx.inputs[1] = NullOutPoint
Header(hash, number, epoch, timestamp, difficulty) ==
    [ hash |-> hash, number |-> number, epoch |-> epoch,
      timestamp |-> timestamp, difficulty |-> difficulty ]
UncleBlock(hash) == [hash |-> hash]

TxC1 == Transaction("c1", <<NullOutPoint>>, <<CellOutput(50, "dc1")>>)
TxC2 == Transaction("c2", <<NullOutPoint>>, <<CellOutput(51, "dc2")>>)
TxT1 == Transaction("t1", <<"k4:1">>, <<CellOutput(7, "da"), CellOutput(9, "db")>>)

BlockB1 ==
    [ header |-> Header("b1", 1, 0, 21, 300),
      transactions |-> <<TxC1, TxT1>>,
      uncles |-> <<UncleBlock("u1")>>,
      proposals |-> <<"p1">> ]
BlockB2 ==
    [ header |-> Header("b2", 1, 0, 22, 300),
      transactions |-> <<TxC2, TxT1, TxT1>>,
      uncles |-> <<UncleBlock("u1"), UncleBlock("u2")>>,
      proposals |-> <<>> ]

Blocks == {BlockB1, BlockB2}
BlockHashes == {b.header.hash : b \in Blocks}
Numbers == {b.header.number : b \in Blocks} \cup {0}
TxsOf(block) == {block.transactions[i] : i \in 1..Len(block.transactions)}
Txs == UNION {TxsOf(b) : b \in Blocks}
TxHashes == {tx.hash : tx \in Txs}
TxOf(hash) == CHOOSE tx \in Txs : tx.hash = hash
UncleHashesOf(block) == {block.uncles[i].hash : i \in 1..Len(block.uncles)}
UncleHashes == UNION {UncleHashesOf(b) : b \in Blocks}
OutputIndexes == 0..MaxOutputIndex

(***************************************************************************)
(* The consensus descriptors init is given.  Capacity is a u64 in the      *)
(* code; the model keeps CapacityBits bits of it, and the capacities of    *)
(* the genesis outputs are chosen next to the greatest value.              *)
(***************************************************************************)
CapacityMax == 2 ^ CapacityBits - 1
\* Capacity::safe_add -> Result<Capacity, Error>, the error as None
safe_add(a, b) == IF a + b > CapacityMax THEN None ELSE Some(a + b)

EpochExt(number, start_number, length, last_block_hash_in_previous_epoch) ==
    [ number |-> number, start_number |-> start_number, length |-> length,
      last_block_hash_in_previous_epoch |-> last_block_hash_in_previous_epoch ]

TxK1 == Transaction("k1", <<NullOutPoint>>, <<CellOutput(5, "dk1")>>)
TxK2 == Transaction("k2", <<NullOutPoint>>,
                    <<CellOutput(CapacityMax, "dk2"), CellOutput(3, "dl2"), CellOutput(4, "dm2")>>)
TxK3 == Transaction("k3", <<NullOutPoint>>,
                    <<CellOutput(1, "dk3"), CellOutput(CapacityMax, "dl3"), CellOutput(1, "dm3")>>)
TxK4 == Transaction("k4", <<NullOutPoint>>, <<CellOutput(5, "dk4"), CellOutput(6, "dl4")>>)
TxN1 == Transaction("n1", <<"k4:0">>, <<CellOutput(8, "dn1"), CellOutput(9, "do1")>>)

GenesisBlock(hash, transactions) ==
    [ header |-> Header(hash, 0, 0, 11, 100),
      transactions |-> transactions,
      uncles |-> <<>>,
      proposals |-> <<>> ]

\* no transaction; a cellbase of one output; a cellbase whose output 0 holds the
\* greatest capacity; a cellbase whose outputs from 1 on overflow; a cellbase
\* and a transaction; the two the other way round; a transaction twice
GenesisBlocks ==
    { GenesisBlock("g0", <<>>),
      GenesisBlock("g1", <<TxK1>>),
      GenesisBlock("g2", <<TxK2>>),
      GenesisBlock("g3", <<TxK3>>),
      GenesisBlock("g4", <<TxK4, TxN1>>),
      GenesisBlock("g5", <<TxN1, TxK4>>),
      GenesisBlock("g6", <<TxK4, TxN1, TxN1>>) }

Consensus(genesis_block) ==
    [ genesis_block |-> genesis_block,
      genesis_epoch_ext |-> EpochExt(0, 0, 1000, "zero") ]
Consensuses == {Consensus(block) : block \in GenesisBlocks}
GenesisHashes == {block.header.hash : block \in GenesisBlocks}
GenesisTxs == UNION {TxsOf(block) : block \in GenesisBlocks}
GenesisTxHashes == {tx.hash : tx \in GenesisTxs}
\* blocks of nothing but a header, for the readers of headers
HeaderBlock(hash, number) ==
    [ header |-> Header(hash, number, 0, 30 + number, 300),
      transactions |-> <<>>, uncles |-> <<>>, proposals |-> <<>> ]
HeaderBlocks ==
    {HeaderBlock("h1", 1), HeaderBlock("h2", 2), HeaderBlock("h3", 3), HeaderBlock("h4", 4)}
HeaderBlockHashes == {b.header.hash : b \in HeaderBlocks}

BlockOf(hash) ==
    CHOOSE b \in Blocks \cup GenesisBlocks \cup HeaderBlocks : b.header.hash = hash

StoreConfig(header_cache_size, cell_output_cache_size) ==
    [ header_cache_size |-> header_cache_size,
      cell_output_cache_size |-> cell_output_cache_size ]

\* history: no hash used so far
NoUse == [recency |-> <<>>, refreshed |-> FALSE]

ReaderThreads == 1..MaxReaders
\* the two caches of a ChainKVStore, each behind its Mutex
Caches == {"header_cache", "cell_output_cache"}

\* the anchors and epochs the writers of EPOCH use: e1 and e1x are two epochs of
\* the same number
EpochAnchors == {"a0", "a1"}
EpochE0 == EpochExt(0, 0, 1000, "zero")
EpochE1 == EpochExt(1, 1000, 1000, "a0")
EpochE1x == EpochExt(1, 1000, 900, "a0")
Epochs == {EpochE0, EpochE1, EpochE1x}
EpochNumbers == {e.number : e \in Epochs}
\* history: no insert_epoch_ext so far
NoEpochRows ==
    [ ext |-> [anchor \in EpochAnchors |-> None],
      index |-> [number \in EpochNumbers |-> None] ]

(***************************************************************************)
(* The init subcommand (ckb-bin): the database directories it checks.      *)
(***************************************************************************)
\* data/db and data/indexer_db under the root directory
DbPaths == {"db", "indexer_db"}
\* what is at a path: nothing, a database of the current version, a database
\* of another version, something that does not open, and what a remove_dir_all
\* that failed midway leaves
DirStates == {"missing", "current", "old", "broken", "partial"}
\* history: no check made so far
NoCheck == [pc |-> "db", log |-> [path \in DbPaths |-> None]]

\* the lines an operator may type at the prompt, as characters
Inputs ==
    { <<"y">>, <<"Y">>, <<"n">>, <<>>, <<"y", "\n">>, <<" ", "Y", " ", "\n">>,
      <<"y", "e", "s", "\n">>, <<"n", " ", "y">>, <<"\n">> }
Whitespace == {" ", "\n", "\t"}
\* str::trim
RECURSIVE trim(_)
trim(s) ==
    IF s = <<>> THEN s
    ELSE IF Head(s) \in Whitespace THEN trim(Tail(s))
    ELSE IF s[Len(s)] \in Whitespace THEN trim(SubSeq(s, 1, Len(s) - 1))
    ELSE s

\* Path::exists
exists(dir) == dir # "missing"
\* RocksDB::open_with_error(&config, 1).err(): the error of the open with its
\* message in pieces, or None when the database opens
open_with_error_err(dir) ==
    IF dir = "old"
    THEN Some(<<"DBError ", "the database version is not matched", ", please upgrade">>)
    ELSE IF dir \in {"broken", "partial"}
    THEN Some(<<"DBError ", "Corruption: CURRENT file does not exist">>)
    ELSE None
\* str::contains
contains(message, pattern) == \E i \in 1..Len(message) : message[i] = pattern
\* fs::remove_dir_all(path): what is left of the directory, as it succeeds,
\* fails at once, or fails midway
remove_dir_all(dir, outcome) ==
    IF outcome = "ok" THEN "missing" ELSE IF outcome = "midway" THEN "partial" ELSE dir
RemoveOutcomes == {"ok", "midway", "denied"}

\* check_db_compatibility that asks on every error of the open
check_db_compatibility_on_any_error(dir, input, outcome) ==
    IF exists(dir) /\ IsSome(open_with_error_err(dir))
    THEN [ prompted |-> TRUE,
           dir |-> IF trim(input) \in {<<"y">>, <<"Y">>}
                   THEN remove_dir_all(dir, outcome) ELSE dir ]
    ELSE [prompted |-> FALSE, dir |-> dir]

\* check_db_compatibility(path) with dir at the path, input typed if it
\* prompts: whether it prompted and what it leaves at the path
check_db_compatibility(dir, input, outcome) ==
    IF exists(dir)
    THEN LET err == open_with_error_err(dir)
         IN  IF IsSome(err)
             THEN IF contains(Unwrap(err), "the database version is not matched")
                  THEN [ prompted |-> TRUE,
                         dir |-> IF trim(input) \in {<<"y">>, <<"Y">>}
                                 THEN remove_dir_all(dir, outcome) ELSE dir ]
                  ELSE [prompted |-> FALSE, dir |-> dir]
             ELSE [prompted |-> FALSE, dir |-> dir]
    ELSE [prompted |-> FALSE, dir |-> dir]

VARIABLES
    db,                \* the backend: column -> (key -> value), committed rows only
    header_cache,      \* ChainKVStore.header_cache
    cell_output_cache, \* ChainKVStore.cell_output_cache
    stored,            \* history: hashes of the blocks a committed insert_block wrote
    attached,          \* history: hashes of the blocks attached and not detached since
    last_attach,       \* history: last attach/detach call of the last committed batches
    trip,              \* history: an attach; commit; detach; commit sequence under way
    tip_written,       \* history: hash of the last committed insert_tip_header
    reader,            \* a get_block call under way in a reader thread, or None
    pending,           \* the batch a writer thread is filling, or None
    event,             \* history: how the last batch ended, or that the process crashed
    durable,           \* history: the committed batches applied in commit order
    init_call,         \* history: the init call made on the store and its outcome, or None
    cell_last,         \* history: tx_hash -> the last committed CELL_SET operation on it
    config,            \* the StoreConfig the store was made with
    lru,               \* history: the hashes get_block_header found, by last use
    header_reads,      \* thread -> the get_block_header call it is in after a miss, or None
    epoch_last,        \* history: the EPOCH rows the committed insert_epoch_ext calls wrote
    last_batch,        \* history: the calls of the last committed batch, in issue order
    dirs,              \* the file system: database path -> what is at the path
    compat,            \* the init subcommand: the check it is at, and history of the checks
    in_flight,         \* thread -> the getter call the thread is in and where, or None
    mutex              \* cache -> the thread that holds the Mutex of the cache, or None

vars == <<db, header_cache, cell_output_cache, stored, attached, last_attach, trip,
          tip_written, reader, pending, event, durable, init_call, cell_last,
          config, lru, header_reads, epoch_last, last_batch, dirs, compat, in_flight, mutex>>

(***************************************************************************)
(* KV backend adapter (ckb_db::KeyValueDB and DbBatch).                    *)
(***************************************************************************)
EmptyDb == [col \in Columns |-> <<>>]

\* KeyValueDB::read(col, key) -> Option<bytes>
read(d, col, key) == IF key \in DOMAIN d[col] THEN Some(d[col][key]) ELSE None

\* DbBatch::insert(col, key, value) and DbBatch::delete(col, key), as buffered
Insert(col, key, value) == [op |-> "insert", col |-> col, key |-> key, value |-> value]
Delete(col, key) == [op |-> "delete", col |-> col, key |-> key, value |-> EmptyBytes]

\* one buffered operation applied to the rows
apply_op(d, o) ==
    LET m == d[o.col]
    IN  IF o.op = "insert"
        THEN [d EXCEPT ![o.col] =
                 [k \in (DOMAIN m) \cup {o.key} |-> IF k = o.key THEN o.value ELSE m[k]]]
        ELSE [d EXCEPT ![o.col] = [k \in (DOMAIN m) \ {o.key} |-> m[k]]]

\* a commit that a crash tears: the first buffered operation alone takes effect
db_commit_torn(d, batch) ==
    IF batch = <<>> THEN d ELSE apply_op(d, Head(batch))

\* DbBatch::commit: the buffered operations take effect together, in issue order
RECURSIVE db_commit(_, _)
db_commit(d, batch) ==
    IF batch = <<>> THEN d ELSE db_commit(apply_op(d, Head(batch)), Tail(batch))

(***************************************************************************)
(* DefaultStoreBatch: a batch is the sequence of operations it buffers.    *)
(***************************************************************************)
new_batch == <<>>

insert_raw(batch, col, key, value) == Append(batch, Insert(col, key, value))
insert_serialize(batch, col, key, item) == Append(batch, Insert(col, key, serialize(item)))
\* delete that takes effect before the operations issued earlier on the batch
delete_first(batch, col, key) == <<Delete(col, key)>> \o batch

delete(batch, col, key) == Append(batch, Delete(col, key))
insert_flatbuffers(batch, col, key, type, data) ==
    insert_raw(batch, col, key, flatbuffers_build(type, data))

\* insert_block that leaves the uncles column out
insert_block_without_uncles(batch, block) ==
    LET hash == as_bytes(block.header.hash)
        b1 == insert_flatbuffers(batch, COLUMN_BLOCK_HEADER, hash, "StoredHeader", block.header)
        b3 == insert_flatbuffers(b1, COLUMN_BLOCK_PROPOSAL_IDS, hash,
                                 "StoredProposalShortIds", block.proposals)
    IN  insert_flatbuffers(b3, COLUMN_BLOCK_BODY, hash, "StoredBlockBody", block.transactions)

\* insert_block that leaves the proposals column out
insert_block_without_proposals(batch, block) ==
    LET hash == as_bytes(block.header.hash)
        b1 == insert_flatbuffers(batch, COLUMN_BLOCK_HEADER, hash, "StoredHeader", block.header)
        b2 == insert_flatbuffers(b1, COLUMN_BLOCK_UNCLE, hash, "StoredUncleBlocks", block.uncles)
    IN  insert_flatbuffers(b2, COLUMN_BLOCK_BODY, hash, "StoredBlockBody", block.transactions)

insert_block(batch, block) ==
    LET hash == as_bytes(block.header.hash)
        b1 == insert_flatbuffers(batch, COLUMN_BLOCK_HEADER, hash, "StoredHeader", block.header)
        b2 == insert_flatbuffers(b1, COLUMN_BLOCK_UNCLE, hash, "StoredUncleBlocks", block.uncles)
        b3 == insert_flatbuffers(b2, COLUMN_BLOCK_PROPOSAL_IDS, hash,
                                 "StoredProposalShortIds", block.proposals)
    IN  insert_flatbuffers(b3, COLUMN_BLOCK_BODY, hash, "StoredBlockBody", block.transactions)

\* insert_tip_header that writes the hash under the CURRENT_EPOCH key of META
insert_tip_header_under_epoch_key(batch, h) ==
    insert_raw(batch, COLUMN_META, META_CURRENT_EPOCH_KEY, as_bytes(h.hash))

insert_tip_header(batch, h) ==
    insert_raw(batch, COLUMN_META, META_TIP_HEADER_KEY, as_bytes(h.hash))

\* a TransactionAddress that counts positions from 1
attach_tx_addr_from_one(hash, index) == [block_hash |-> hash, index |-> index + 1]

\* attach_block, the TransactionAddress of the transaction at position index
attach_tx_addr(hash, index) == [block_hash |-> hash, index |-> index]

\* attach_block, the CellMeta of output index of tx, a transaction at position tx_index
attach_cell_meta(block, tx, tx_index, index) ==
    [ cell_output |-> None,
      out_point |-> [tx_hash |-> tx.hash, index |-> index],
      block_info |-> Some([number |-> block.header.number, epoch |-> block.header.epoch]),
      cellbase |-> (tx_index = 0),
      capacity |-> tx.outputs[index + 1].capacity,
      data_hash |-> Some(tx.outputs[index + 1].data_hash) ]

\* the inner loop of attach_block stopping one output early
RECURSIVE attach_outputs_but_last(_, _, _, _)
attach_outputs_but_last(batch, block, tx_index, index) ==
    LET tx == block.transactions[tx_index + 1]
    IN  IF index + 1 >= Len(tx.outputs) THEN batch
        ELSE attach_outputs_but_last(
                 insert_serialize(batch, COLUMN_CELL_META,
                                  CellKey_calculate(tx.hash, index),
                                  attach_cell_meta(block, tx, tx_index, index)),
                 block, tx_index, index + 1)

\* attach_block, the inner loop: outputs index.. of the transaction at tx_index
RECURSIVE attach_outputs(_, _, _, _)
attach_outputs(batch, block, tx_index, index) ==
    LET tx == block.transactions[tx_index + 1]
    IN  IF index >= Len(tx.outputs) THEN batch
        ELSE attach_outputs(
                 insert_serialize(batch, COLUMN_CELL_META,
                                  CellKey_calculate(tx.hash, index),
                                  attach_cell_meta(block, tx, tx_index, index)),
                 block, tx_index, index + 1)

\* attach_block, the outer loop: transactions index.. of the block
RECURSIVE attach_transactions(_, _, _)
attach_transactions(batch, block, index) ==
    IF index >= Len(block.transactions) THEN batch
    ELSE LET tx == block.transactions[index + 1]
             b1 == insert_flatbuffers(batch, COLUMN_TRANSACTION_ADDR, as_bytes(tx.hash),
                                      "StoredTransactionAddress",
                                      attach_tx_addr(block.header.hash, index))
         IN  attach_transactions(attach_outputs(b1, block, index, 0), block, index + 1)

\* attach_block, the uncle marks: uncles i.. of the block
RECURSIVE attach_uncles(_, _, _)
attach_uncles(batch, block, i) ==
    IF i >= Len(block.uncles) THEN batch
    ELSE attach_uncles(
             insert_raw(batch, COLUMN_UNCLES, as_bytes(block.uncles[i + 1].hash), EmptyBytes),
             block, i + 1)

\* attach_block that writes the number -> hash row of INDEX alone
attach_index_without_hash_row(batch, block) ==
    LET hash == block.header.hash
        number == to_le_bytes(block.header.number)
        b1 == insert_raw(batch, COLUMN_INDEX, number, as_bytes(hash))
    IN  attach_uncles(b1, block, 0)

\* attach_block writing its second INDEX row under the number again
attach_index_number_twice(batch, block) ==
    LET hash == block.header.hash
        number == to_le_bytes(block.header.number)
        b1 == insert_raw(batch, COLUMN_INDEX, number, as_bytes(hash))
        b2 == attach_uncles(b1, block, 0)
    IN  insert_raw(b2, COLUMN_INDEX, number, number)

\* attach_block, the two INDEX rows around the uncle marks
attach_index(batch, block) ==
    LET hash == block.header.hash
        number == to_le_bytes(block.header.number)
        b1 == insert_raw(batch, COLUMN_INDEX, number, as_bytes(hash))
        b2 == attach_uncles(b1, block, 0)
    IN  insert_raw(b2, COLUMN_INDEX, as_bytes(hash), number)

attach_block(batch, block) == attach_index(attach_transactions(batch, block, 0), block)

\* detach_block, the inner loop: outputs index.. of tx
RECURSIVE detach_outputs(_, _, _)
detach_outputs(batch, tx, index) ==
    IF index >= Len(tx.outputs) THEN batch
    ELSE detach_outputs(delete(batch, COLUMN_CELL_META, CellKey_calculate(tx.hash, index)),
                        tx, index + 1)

\* the outer loop of detach_block without the inner one: the cell metas stay
RECURSIVE detach_transactions_addr_only(_, _, _)
detach_transactions_addr_only(batch, block, i) ==
    IF i >= Len(block.transactions) THEN batch
    ELSE detach_transactions_addr_only(
             delete(batch, COLUMN_TRANSACTION_ADDR, as_bytes(block.transactions[i + 1].hash)),
             block, i + 1)

\* detach_block, the outer loop: transactions i.. of the block
RECURSIVE detach_transactions(_, _, _)
detach_transactions(batch, block, i) ==
    IF i >= Len(block.transactions) THEN batch
    ELSE LET tx == block.transactions[i + 1]
             b1 == delete(batch, COLUMN_TRANSACTION_ADDR, as_bytes(tx.hash))
         IN  detach_transactions(detach_outputs(b1, tx, 0), block, i + 1)

\* detach_block that leaves the uncle marks
detach_uncles_none(batch, block, i) == batch

\* detach_block, the uncle marks: uncles i.. of the block
RECURSIVE detach_uncles(_, _, _)
detach_uncles(batch, block, i) ==
    IF i >= Len(block.uncles) THEN batch
    ELSE detach_uncles(delete(batch, COLUMN_UNCLES, as_bytes(block.uncles[i + 1].hash)),
                       block, i + 1)

\* detach_block that leaves the hash -> number row
detach_index_number_only(batch, block) ==
    delete(batch, COLUMN_INDEX, to_le_bytes(block.header.number))

\* detach_block, the two INDEX rows
detach_index(batch, block) ==
    delete(delete(batch, COLUMN_INDEX, to_le_bytes(block.header.number)),
           COLUMN_INDEX, as_bytes(block.header.hash))

\* detach_block that discards the header row of the block as well
detach_block_with_header(batch, block) ==
    delete(detach_index(detach_uncles(detach_transactions(batch, block, 0), block, 0), block),
           COLUMN_BLOCK_HEADER, as_bytes(block.header.hash))

\* detach_block that deletes the BLOCK_EXT row of the block as well
detach_block_with_ext(batch, block) ==
    delete(detach_index(detach_uncles(detach_transactions(batch, block, 0), block, 0), block),
           COLUMN_BLOCK_EXT, as_bytes(block.header.hash))

detach_block(batch, block) ==
    detach_index(detach_uncles(detach_transactions(batch, block, 0), block, 0), block)

insert_block_ext(batch, block_hash, ext) ==
    insert_flatbuffers(batch, COLUMN_BLOCK_EXT, as_bytes(block_hash), "BlockExt", ext)

insert_block_epoch_index(batch, block_hash, epoch_hash) ==
    insert_raw(batch, COLUMN_BLOCK_EPOCH, as_bytes(block_hash), as_bytes(epoch_hash))

\* insert_epoch_ext that leaves the epoch_number -> anchor row out
insert_epoch_ext_without_index(batch, hash, epoch) ==
    insert_flatbuffers(batch, COLUMN_EPOCH, as_bytes(hash), "StoredEpochExt", epoch)

insert_epoch_ext(batch, hash, epoch) ==
    LET epoch_index == as_bytes(hash)
        epoch_number == to_le_bytes(epoch.number)
        b1 == insert_flatbuffers(batch, COLUMN_EPOCH, epoch_index, "StoredEpochExt", epoch)
    IN  insert_raw(b1, COLUMN_EPOCH, epoch_number, epoch_index)

insert_current_epoch_ext(batch, epoch) ==
    insert_flatbuffers(batch, COLUMN_META, META_CURRENT_EPOCH_KEY, "StoredEpochExt", epoch)

update_cell_set(batch, tx_hash, meta) ==
    insert_flatbuffers(batch, COLUMN_CELL_SET, as_bytes(tx_hash), "TransactionMeta", meta)

\* delete_cell_set that leaves the row
delete_cell_set_nothing(batch, tx_hash) == batch

delete_cell_set(batch, tx_hash) == delete(batch, COLUMN_CELL_SET, as_bytes(tx_hash))

\* DefaultStoreBatch::commit
commit(d, batch) == db_commit(d, batch)

(***************************************************************************)
(* ChainStore::init, the batch it fills.                                   *)
(***************************************************************************)
\* TransactionMeta::new(block_number, epoch_number, outputs_count, all_dead):
\* one dead bit per output
TransactionMeta_new(block_number, epoch_number, outputs_count, all_dead) ==
    [ block_number |-> block_number,
      epoch_number |-> epoch_number,
      cellbase |-> FALSE,
      dead_cell |-> [i \in 1..outputs_count |-> all_dead] ]
TransactionMeta_new_cellbase(block_number, epoch_number, outputs_count, all_dead) ==
    [TransactionMeta_new(block_number, epoch_number, outputs_count, all_dead)
        EXCEPT !.cellbase = TRUE]

\* outputs.iter().try_fold(capacity, |capacity, output| capacity.safe_add(output.capacity))
RECURSIVE try_fold_safe_add(_, _)
try_fold_safe_add(capacity, outputs) ==
    IF outputs = <<>> THEN Some(capacity)
    ELSE LET sum == safe_add(capacity, Head(outputs).capacity)
         IN  IF IsSome(sum) THEN try_fold_safe_add(Unwrap(sum), Tail(outputs)) ELSE None

\* init that folds the outputs of the first transaction from output 0 on
init_accumulated_capacity_from_0(genesis) ==
    IF genesis.transactions = <<>> THEN Some(0)
    ELSE try_fold_safe_add(0, genesis.transactions[1].outputs)

\* init, dao_stats.accumulated_capacity of the genesis BlockExt; None where the
\* expect on the fold aborts
init_accumulated_capacity(genesis) ==
    IF genesis.transactions = <<>> THEN Some(0)
    ELSE try_fold_safe_add(0, Tail(genesis.transactions[1].outputs))

\* init, the BlockExt of the genesis block
init_ext(genesis) ==
    [ received_at |-> genesis.header.timestamp,
      total_difficulty |-> genesis.header.difficulty,
      total_uncles_count |-> 0,
      verified |-> Some(TRUE),
      txs_fees |-> <<>>,
      dao_stats |-> [ accumulated_rate |-> "DEFAULT_ACCUMULATED_RATE",
                      accumulated_capacity |-> Unwrap(init_accumulated_capacity(genesis)) ] ]

\* init that takes the transaction at position 0 for the cellbase
init_tx_meta_by_position(genesis, i) ==
    LET tx == genesis.transactions[i]
    IN  IF i = 1
        THEN TransactionMeta_new_cellbase(genesis.header.number, genesis.header.epoch,
                                          Len(tx.outputs), FALSE)
        ELSE TransactionMeta_new(genesis.header.number, genesis.header.epoch,
                                 Len(tx.outputs), FALSE)

\* init, the TransactionMeta of the genesis transaction at position i (from 1)
init_tx_meta(genesis, i) ==
    LET tx == genesis.transactions[i]
    IN  IF is_cellbase(tx)
        THEN TransactionMeta_new_cellbase(genesis.header.number, genesis.header.epoch,
                                          Len(tx.outputs), FALSE)
        ELSE TransactionMeta_new(genesis.header.number, genesis.header.epoch,
                                 Len(tx.outputs), FALSE)

\* init, the loop over the genesis transactions, from position i on
RECURSIVE init_cell_set(_, _, _)
init_cell_set(batch, genesis, i) ==
    IF i > Len(genesis.transactions) THEN batch
    ELSE init_cell_set(update_cell_set(batch, genesis.transactions[i].hash,
                                       init_tx_meta(genesis, i)),
                       genesis, i + 1)

\* init that does not attach the genesis block
init_batch_without_attach(consensus) ==
    LET genesis == consensus.genesis_block
        epoch == consensus.genesis_epoch_ext
        genesis_hash == genesis.header.hash
        b0 == init_cell_set(new_batch, genesis, 1)
        b1 == insert_block(b0, genesis)
        b2 == insert_block_ext(b1, genesis_hash, init_ext(genesis))
        b3 == insert_tip_header(b2, genesis.header)
        b4 == insert_current_epoch_ext(b3, epoch)
        b5 == insert_block_epoch_index(b4, genesis_hash,
                                       epoch.last_block_hash_in_previous_epoch)
    IN  insert_epoch_ext(b5, epoch.last_block_hash_in_previous_epoch, epoch)

\* init, the calls on the batch after the loop
init_batch(consensus) ==
    LET genesis == consensus.genesis_block
        epoch == consensus.genesis_epoch_ext
        genesis_hash == genesis.header.hash
        b0 == init_cell_set(new_batch, genesis, 1)
        b1 == insert_block(b0, genesis)
        b2 == insert_block_ext(b1, genesis_hash, init_ext(genesis))
        b3 == insert_tip_header(b2, genesis.header)
        b4 == insert_current_epoch_ext(b3, epoch)
        b5 == insert_block_epoch_index(b4, genesis_hash,
                                       epoch.last_block_hash_in_previous_epoch)
        b6 == insert_epoch_ext(b5, epoch.last_block_hash_in_previous_epoch, epoch)
    IN  attach_block(b6, genesis)

Ok == <<"ok">>

\* init over the rows d: what it returns and the rows it leaves
init(d, consensus) ==
    IF ~IsSome(init_accumulated_capacity(consensus.genesis_block))
    THEN [ ret |-> Panic("accumulated capacity in genesis block should not overflow"),
           db |-> d ]
    ELSE [ret |-> Ok, db |-> commit(d, init_batch(consensus))]

\* Err(Error) of a Result
Err(e) == <<"err", e>>

\* The backend calls of init in the order init makes them: new_batch, one call
\* of the DbBatch for each row of the batch, commit.  A fault is the position
\* of the backend call that returns an error, 0 when none does.
InitFaults(consensus) ==
    IF IsSome(init_accumulated_capacity(consensus.genesis_block))
    THEN 0..(Len(init_batch(consensus)) + 2)
    ELSE 0..1

\* init that, when a call of the batch fails, commits the rows put so far
init_with_fault_committing(d, consensus, fault) ==
    LET batch == init_batch(consensus)
    IN  IF fault = 1 THEN [ret |-> Err("db"), db |-> d]
        ELSE IF ~IsSome(init_accumulated_capacity(consensus.genesis_block))
        THEN [ ret |-> Panic("accumulated capacity in genesis block should not overflow"),
               db |-> d ]
        ELSE IF fault \in 2..(Len(batch) + 1)
        THEN [ret |-> Err("db"), db |-> commit(d, SubSeq(batch, 1, fault - 2))]
        ELSE IF fault = Len(batch) + 2 THEN [ret |-> Err("db"), db |-> d]
        ELSE [ret |-> Ok, db |-> commit(d, batch)]

\* init over the rows d with a backend whose call at position fault fails:
\* new_batch()? returns the error before anything else, the capacity sum aborts
\* before the first call on the batch, each call on the batch and the commit
\* return the error with ?, and the batch is dropped with what it holds
init_with_fault(d, consensus, fault) ==
    LET batch == init_batch(consensus)
    IN  IF fault = 1 THEN [ret |-> Err("db"), db |-> d]
        ELSE IF ~IsSome(init_accumulated_capacity(consensus.genesis_block))
        THEN [ ret |-> Panic("accumulated capacity in genesis block should not overflow"),
               db |-> d ]
        ELSE IF fault \in 2..(Len(batch) + 2) THEN [ret |-> Err("db"), db |-> d]
        ELSE [ret |-> Ok, db |-> commit(d, batch)]

(***************************************************************************)
(* LruCache<K, V>: the entries as <<key, value>> pairs, least recently     *)
(* used first.                                                             *)
(***************************************************************************)
LruKeys(cache) == {cache[i][1] : i \in 1..Len(cache)}
LruValue(cache, key) ==
    cache[CHOOSE i \in 1..Len(cache) : cache[i][1] = key][2]
LruWithout(cache, key) == SelectSeq(cache, LAMBDA e : e[1] # key)

\* LruCache::get_refresh(key): a hit makes the entry the most recently used one
LruCache_get_refresh(cache, key) ==
    IF key \in LruKeys(cache)
    THEN [ ret |-> Some(LruValue(cache, key)),
           cache |-> Append(LruWithout(cache, key), <<key, LruValue(cache, key)>>) ]
    ELSE [ret |-> None, cache |-> cache]

\* LruCache::insert(key, value) on a cache of max_size entries: the entry becomes
\* the most recently used one, and the least recently used ones go while the
\* cache holds more than max_size
LruCache_insert(cache, max_size, key, value) ==
    LET c == Append(LruWithout(cache, key), <<key, value>>)
    IN  IF Len(c) > max_size THEN SubSeq(c, Len(c) - max_size + 1, Len(c)) ELSE c

(***************************************************************************)
(* ChainKVStore: the read facade.  A getter that touches a cache is an     *)
(* operator that gives the value returned (ret) and the cache as the call  *)
(* leaves it; a getter that only reads the backend gives the value.        *)
(***************************************************************************)
get(col, key) == read(db, col, key)
process_get(col, key) == read(db, col, key)

is_uncle(hash) == IsSome(get(COLUMN_UNCLES, as_bytes(hash)))

\* get_block_header past the cache probe: the backend read and the decoding
read_block_header(hash) ==
    LET slice == process_get(COLUMN_BLOCK_HEADER, as_bytes(hash))
    IN  IF IsSome(slice)
        THEN Some(flatbuffers_get_root("StoredHeader", Unwrap(slice)))
        ELSE None

\* get_block_header, a probe that keeps the recency of the entry it finds
get_block_header_probe_without_refresh(hash) ==
    [ ret |-> IF hash \in LruKeys(header_cache)
              THEN Some(LruValue(header_cache, hash)) ELSE None,
      cache |-> header_cache ]

\* get_block_header under the first lock: the probe of the cache
get_block_header_probe(hash) == LruCache_get_refresh(header_cache, hash)

\* get_block_header that pushes the header read without looking for the hash
get_block_header_fill_appending(hash, header) == Append(header_cache, <<hash, header>>)

\* get_block_header under the second lock: the header read is put in the cache
get_block_header_fill(hash, header) ==
    LruCache_insert(header_cache, config.header_cache_size, hash, header)

get_block_header(hash) ==
    LET probe == get_block_header_probe(hash)
        header == read_block_header(hash)
    IN  IF IsSome(probe.ret)
        THEN [ret |-> probe.ret, header_cache |-> probe.cache]
        ELSE IF IsSome(header)
             THEN [ ret |-> header,
                    header_cache |-> get_block_header_fill(hash, Unwrap(header)) ]
             ELSE [ret |-> None, header_cache |-> header_cache]

get_block_uncles(hash) ==
    LET slice == process_get(COLUMN_BLOCK_UNCLE, as_bytes(hash))
    IN  IF IsSome(slice)
        THEN Some(flatbuffers_get_root("StoredUncleBlocks", Unwrap(slice)))
        ELSE None

get_block_proposal_txs_ids(hash) ==
    LET slice == process_get(COLUMN_BLOCK_PROPOSAL_IDS, as_bytes(hash))
    IN  IF IsSome(slice)
        THEN Some(flatbuffers_get_root("StoredProposalShortIds", Unwrap(slice)))
        ELSE None

get_block_body(hash) ==
    LET slice == process_get(COLUMN_BLOCK_BODY, as_bytes(hash))
    IN  IF IsSome(slice)
        THEN Some(StoredBlockBody_into(flatbuffers_get_root("StoredBlockBody", Unwrap(slice))))
        ELSE None

get_block_txs_hashes(hash) ==
    LET slice == process_get(COLUMN_BLOCK_BODY, as_bytes(hash))
    IN  IF IsSome(slice)
        THEN Some(StoredBlockBody_tx_hashes(
                      flatbuffers_get_root("StoredBlockBody", Unwrap(slice))))
        ELSE None

get_block(h) ==
    LET r == get_block_header(h)
        transactions == get_block_body(h)
        uncles == get_block_uncles(h)
        proposals == get_block_proposal_txs_ids(h)
    IN  [ ret |->
              IF ~IsSome(r.ret) THEN None
              ELSE IF ~IsSome(transactions) THEN Panic("block transactions must be stored")
              ELSE IF ~IsSome(uncles) THEN Panic("block uncles must be stored")
              ELSE IF ~IsSome(proposals) THEN Panic("block proposal_ids must be stored")
              ELSE Some([ header |-> Unwrap(r.ret),
                          uncles |-> Unwrap(uncles),
                          transactions |-> Unwrap(transactions),
                          proposals |-> Unwrap(proposals) ]),
          header_cache |-> r.header_cache ]

get_block_hash(number) ==
    LET raw == get(COLUMN_INDEX, to_le_bytes(number))
    IN  IF IsSome(raw) THEN Some(from_slice(Unwrap(raw))) ELSE None

get_block_number(hash) ==
    LET raw == get(COLUMN_INDEX, as_bytes(hash))
    IN  IF IsSome(raw) THEN Some(deserialize_number(Unwrap(raw))) ELSE None

get_tip_header ==
    LET raw == get(COLUMN_META, META_TIP_HEADER_KEY)
    IN  IF IsSome(raw) THEN get_block_header(from_slice(Unwrap(raw)))
        ELSE [ret |-> None, header_cache |-> header_cache]

get_transaction_address(hash) ==
    LET slice == process_get(COLUMN_TRANSACTION_ADDR, as_bytes(hash))
    IN  IF IsSome(slice)
        THEN Some(flatbuffers_get_root("StoredTransactionAddress", Unwrap(slice)))
        ELSE None

\* get_transaction that takes the first transaction of the block
get_transaction_first(hash) ==
    LET addr == get_transaction_address(hash)
        slice == process_get(COLUMN_BLOCK_BODY, as_bytes(Unwrap(addr).block_hash))
        tx_opt == StoredBlockBody_transaction(
                      flatbuffers_get_root("StoredBlockBody", Unwrap(slice)), 0)
    IN  IF ~IsSome(addr) THEN None
        ELSE IF ~IsSome(slice) THEN None
        ELSE IF ~IsSome(tx_opt) THEN None
        ELSE Some(<<Unwrap(tx_opt), Unwrap(addr).block_hash>>)

get_transaction(hash) ==
    LET addr == get_transaction_address(hash)
        slice == process_get(COLUMN_BLOCK_BODY, as_bytes(Unwrap(addr).block_hash))
        tx_opt == StoredBlockBody_transaction(
                      flatbuffers_get_root("StoredBlockBody", Unwrap(slice)),
                      Unwrap(addr).index)
    IN  IF ~IsSome(addr) THEN None
        ELSE IF ~IsSome(slice) THEN None
        ELSE IF ~IsSome(tx_opt) THEN None
        ELSE Some(<<Unwrap(tx_opt), Unwrap(addr).block_hash>>)

get_cell_meta(tx_hash, index) ==
    LET raw == get(COLUMN_CELL_META, CellKey_calculate(tx_hash, index))
    IN  IF IsSome(raw) THEN Some(deserialize(Unwrap(raw))) ELSE None

\* get_cell_output past the cache probe: the backend reads and the decoding
read_cell_output(tx_hash, index) ==
    LET addr == get_transaction_address(tx_hash)
        slice == process_get(COLUMN_BLOCK_BODY, as_bytes(Unwrap(addr).block_hash))
    IN  IF ~IsSome(addr) THEN None
        ELSE IF ~IsSome(slice) THEN None
        ELSE StoredBlockBody_output(
                 flatbuffers_get_root("StoredBlockBody", Unwrap(slice)),
                 Unwrap(addr).index, index)

\* get_cellbase whose expect is taken for a missing row as well
get_cellbase_expecting_row(hash) ==
    LET slice == process_get(COLUMN_BLOCK_BODY, as_bytes(hash))
        cellbase == IF IsSome(slice)
                    THEN StoredBlockBody_transaction(
                             flatbuffers_get_root("StoredBlockBody", Unwrap(slice)), 0)
                    ELSE None
    IN  IF IsSome(cellbase) THEN cellbase ELSE Panic("cellbase address should exist")

get_cellbase(hash) ==
    LET slice == process_get(COLUMN_BLOCK_BODY, as_bytes(hash))
    IN  IF IsSome(slice)
        THEN LET cellbase == StoredBlockBody_transaction(
                                 flatbuffers_get_root("StoredBlockBody", Unwrap(slice)), 0)
             IN  IF IsSome(cellbase) THEN cellbase
                 ELSE Panic("cellbase address should exist")
        ELSE None

\* get_cell_output under the first lock: the probe of the cache
get_cell_output_probe(tx_hash, index) ==
    LruCache_get_refresh(cell_output_cache, <<tx_hash, index>>)

\* get_cell_output whose cache was made with the size of the header cache
get_cell_output_fill_header_sized(tx_hash, index, cell_output) ==
    LruCache_insert(cell_output_cache, config.header_cache_size,
                    <<tx_hash, index>>, cell_output)

\* get_cell_output under the second lock: the output read is put in the cache
get_cell_output_fill(tx_hash, index, cell_output) ==
    LruCache_insert(cell_output_cache, config.cell_output_cache_size,
                    <<tx_hash, index>>, cell_output)

get_cell_output(tx_hash, index) ==
    LET probe == get_cell_output_probe(tx_hash, index)
        cell_output == read_cell_output(tx_hash, index)
    IN  IF IsSome(probe.ret)
        THEN [ret |-> probe.ret, cell_output_cache |-> probe.cache]
        ELSE IF IsSome(cell_output)
             THEN [ ret |-> cell_output,
                    cell_output_cache |->
                        get_cell_output_fill(tx_hash, index, Unwrap(cell_output)) ]
             ELSE [ret |-> None, cell_output_cache |-> cell_output_cache]


get_block_ext(block_hash) ==
    LET slice == process_get(COLUMN_BLOCK_EXT, as_bytes(block_hash))
    IN  IF IsSome(slice) THEN Some(flatbuffers_get_root("BlockExt", Unwrap(slice))) ELSE None

get_current_epoch_ext ==
    LET slice == process_get(COLUMN_META, META_CURRENT_EPOCH_KEY)
    IN  IF IsSome(slice) THEN Some(flatbuffers_get_root("StoredEpochExt", Unwrap(slice)))
        ELSE None

get_epoch_ext(hash) ==
    LET slice == process_get(COLUMN_EPOCH, as_bytes(hash))
    IN  IF IsSome(slice) THEN Some(flatbuffers_get_root("StoredEpochExt", Unwrap(slice)))
        ELSE None

get_epoch_index(number) ==
    LET raw == get(COLUMN_EPOCH, to_le_bytes(number))
    IN  IF IsSome(raw) THEN Some(from_slice(Unwrap(raw))) ELSE None

get_block_epoch_index(block_hash) ==
    LET raw == get(COLUMN_BLOCK_EPOCH, as_bytes(block_hash))
    IN  IF IsSome(raw) THEN Some(from_slice(Unwrap(raw))) ELSE None

\* KeyValueDB::traverse(col, callback): the (key, value) pairs the callback is
\* given, each row of the column once (the order of the calls is left out)
traverse(col) == {<<key, db[col][key]>> : key \in DOMAIN db[col]}

\* traverse_cell_set: the (tx_hash, tx_meta) pairs its callback is given
traverse_cell_set ==
    { <<from_slice(row[1]), flatbuffers_get_root("TransactionMeta", row[2])>> :
          row \in traverse(COLUMN_CELL_SET) }

(***************************************************************************)
(* The writers.  A batch belongs to the thread that fills it and nothing   *)
(* of it is in the backend before commit, so filling a batch and           *)
(* committing it is one step of the store: new_batch, the StoreBatch calls *)
(* in order, commit.                                                       *)
(***************************************************************************)
\* the update_cell_set and delete_cell_set calls of the writers
CellSetHashes == GenesisTxHashes
WriterCellSetHashes == {TxK4.hash, TxN1.hash}
TransactionMetas ==
    { TransactionMeta_new_cellbase(0, 0, 2, FALSE),
      [TransactionMeta_new(1, 0, 2, FALSE) EXCEPT !.dead_cell[1] = TRUE] }
CellSetCalls ==
    [op : {"update_cell_set"}, tx_hash : WriterCellSetHashes, meta : TransactionMetas]
        \cup [op : {"delete_cell_set"}, tx_hash : WriterCellSetHashes]
CellSetPrograms == UNION {[1..n -> CellSetCalls] : n \in 1..MaxBatchOps}

\* history: no update_cell_set or delete_cell_set on a tx_hash so far
NoCellOp == [op |-> "none"]

CallNames == {"insert_block", "attach_block", "detach_block", "insert_tip_header"}
Calls == [op : CallNames, block : BlockHashes]
Programs == UNION {[1..n -> Calls] : n \in 1..MaxBatchOps}

apply_call(batch, call) ==
    CASE call.op = "insert_block" -> insert_block(batch, BlockOf(call.block))
      [] call.op = "attach_block" -> attach_block(batch, BlockOf(call.block))
      [] call.op = "detach_block" -> detach_block(batch, BlockOf(call.block))
      [] call.op = "insert_tip_header" -> insert_tip_header(batch, BlockOf(call.block).header)
      [] call.op = "update_cell_set" -> update_cell_set(batch, call.tx_hash, call.meta)
      [] call.op = "delete_cell_set" -> delete_cell_set(batch, call.tx_hash)
      [] call.op = "insert_block_ext" -> insert_block_ext(batch, call.block_hash, call.ext)
      [] call.op = "insert_epoch_ext" -> insert_epoch_ext(batch, call.hash, call.epoch)
      [] call.op = "insert_current_epoch_ext" -> insert_current_epoch_ext(batch, call.epoch)
      [] call.op = "insert_block_epoch_index" ->
             insert_block_epoch_index(batch, call.block_hash, call.epoch_hash)

RECURSIVE run_calls(_, _)
run_calls(batch, calls) ==
    IF calls = <<>> THEN batch
    ELSE run_calls(apply_call(batch, Head(calls)), Tail(calls))

\* the columns attach_block and detach_block write
AttachColumns == {COLUMN_TRANSACTION_ADDR, COLUMN_CELL_META, COLUMN_INDEX, COLUMN_UNCLES}
AttachRows(d) == [col \in AttachColumns |-> d[col]]

\* history: the blocks attached after the calls of a committed batch
RECURSIVE attached_after(_, _)
attached_after(set, calls) ==
    IF calls = <<>> THEN set
    ELSE attached_after(
             IF Head(calls).op = "attach_block" THEN set \cup {Head(calls).block}
             ELSE IF Head(calls).op = "detach_block" THEN set \ {Head(calls).block}
             ELSE set,
             Tail(calls))

IsAttachCall(call) == call.op \in {"attach_block", "detach_block"}
AttachCalls(calls) == SelectSeq(calls, IsAttachCall)

\* history: the attach; commit; detach; commit sequence after a committed batch
trip_after(calls) ==
    IF Len(calls) = 1 /\ calls[1].op = "attach_block"
    THEN Some([block |-> calls[1].block, phase |-> "attached", pre |-> AttachRows(db)])
    ELSE IF /\ Len(calls) = 1 /\ calls[1].op = "detach_block"
            /\ IsSome(trip) /\ Unwrap(trip).phase = "attached"
            /\ Unwrap(trip).block = calls[1].block
         THEN Some([Unwrap(trip) EXCEPT !.phase = "detached"])
         ELSE None

\* history: the hash the last committed insert_tip_header wrote
RECURSIVE tip_after(_, _)
tip_after(tip, calls) ==
    IF calls = <<>> THEN tip
    ELSE tip_after(IF Head(calls).op = "insert_tip_header" THEN Some(Head(calls).block)
                   ELSE tip,
                   Tail(calls))

\* history: what the calls of a committed batch did
History(calls) ==
    /\ stored' = stored \cup {calls[i].block : i \in {j \in 1..Len(calls) : calls[j].op = "insert_block"}}
    /\ attached' = attached_after(attached, calls)
    /\ last_attach' = IF AttachCalls(calls) = <<>> THEN last_attach
                      ELSE Some(AttachCalls(calls)[Len(AttachCalls(calls))])
    /\ trip' = trip_after(calls)
    /\ tip_written' = tip_after(tip_written, calls)

WriteBatch(calls) ==
    /\ db' = commit(db, run_calls(new_batch, calls))
    /\ History(calls)
    /\ UNCHANGED <<header_cache, cell_output_cache>>

(***************************************************************************)
(* The readers: the getters that touch a cache.                            *)
(***************************************************************************)
GetBlockHeader(hash) ==
    /\ header_cache' = get_block_header(hash).header_cache
    /\ UNCHANGED <<db, cell_output_cache, stored, attached, last_attach, trip, tip_written>>

GetTipHeader ==
    /\ header_cache' = get_tip_header.header_cache
    /\ UNCHANGED <<db, cell_output_cache, stored, attached, last_attach, trip, tip_written>>

GetBlock(hash) ==
    /\ header_cache' = get_block(hash).header_cache
    /\ UNCHANGED <<db, cell_output_cache, stored, attached, last_attach, trip, tip_written>>

GetCellOutput(tx_hash, index) ==
    /\ cell_output_cache' = get_cell_output(tx_hash, index).cell_output_cache
    /\ UNCHANGED <<db, header_cache, stored, attached, last_attach, trip, tip_written>>

\* ChainKVStore::with_config over the same backend: a new store instance
Reopen ==
    /\ header_cache' = <<>>
    /\ cell_output_cache' = <<>>
    /\ UNCHANGED <<db, stored, attached, last_attach, trip, tip_written>>

\* a store made over a fresh backend, whatever its configuration
InitFresh ==
    /\ db = EmptyDb
    /\ header_cache = <<>>
    /\ cell_output_cache = <<>>
    /\ stored = {}
    /\ attached = {}
    /\ last_attach = None
    /\ trip = None
    /\ tip_written = None
    /\ reader = None
    /\ pending = None
    /\ event = "none"
    /\ durable = EmptyDb
    /\ init_call = None
    /\ cell_last = [tx_hash \in CellSetHashes |-> NoCellOp]
    /\ lru = NoUse
    /\ header_reads = [t \in ReaderThreads |-> None]
    /\ epoch_last = NoEpochRows
    /\ last_batch = <<>>
    /\ compat = NoCheck
    /\ in_flight = [t \in ReaderThreads |-> None]
    /\ mutex = [cache \in Caches |-> None]

Init ==
    /\ InitFresh
    /\ config = StoreConfig(HeaderCacheSize, CellOutputCacheSize)
    /\ dirs = [path \in DbPaths |-> "missing"]

\* the variables of the other specifications, which Spec leaves alone
others == <<reader, pending, event, durable, init_call, cell_last, config, lru,
            header_reads, epoch_last, last_batch, dirs, compat, in_flight, mutex>>

Next ==
    \/ \E calls \in Programs : WriteBatch(calls) /\ UNCHANGED others
    \/ \E hash \in BlockHashes : GetBlockHeader(hash) /\ UNCHANGED others
    \/ GetTipHeader /\ UNCHANGED others
    \/ \E hash \in BlockHashes : GetBlock(hash) /\ UNCHANGED others
    \/ \E tx_hash \in TxHashes, index \in OutputIndexes :
           GetCellOutput(tx_hash, index) /\ UNCHANGED others
    \/ Reopen /\ UNCHANGED others

Spec == Init /\ [][Next]_vars

(***************************************************************************)
(* A reader thread inside get_block while writer threads commit: the four  *)
(* reads of get_block are separate steps and a commit may fall between any *)
(* two of them.                                                            *)
(***************************************************************************)
store_vars == <<db, header_cache, cell_output_cache, stored, attached, last_attach, trip,
                tip_written>>
batch_vars == <<pending, event, durable>>
init_vars == <<init_call, cell_last>>
lru_vars == <<config, lru, header_reads>>
more_vars == <<epoch_last, last_batch, dirs, compat, in_flight, mutex>>

\* get_block, the call of get_block_header
GetBlockBegin(h) ==
    /\ reader = None
    /\ LET r == get_block_header(h)
       IN  /\ header_cache' = r.header_cache
           /\ reader' = Some([ h |-> h,
                               pc |-> IF IsSome(r.ret) THEN "transactions" ELSE "done",
                               header |-> r.ret,
                               transactions |-> None,
                               uncles |-> None,
                               raced |-> FALSE,
                               ret |-> None ])
    /\ UNCHANGED <<db, cell_output_cache, stored, attached, last_attach, trip, tip_written>>
    /\ UNCHANGED <<batch_vars, init_vars, lru_vars, more_vars>>

\* get_block, the call of get_block_body and its expect
GetBlockTransactions ==
    /\ IsSome(reader) /\ Unwrap(reader).pc = "transactions"
    /\ LET transactions == get_block_body(Unwrap(reader).h)
       IN  reader' = Some(IF IsSome(transactions)
                          THEN [Unwrap(reader) EXCEPT !.pc = "uncles",
                                                      !.transactions = transactions]
                          ELSE [Unwrap(reader) EXCEPT
                                    !.pc = "done",
                                    !.ret = Panic("block transactions must be stored")])
    /\ UNCHANGED <<store_vars, batch_vars, init_vars, lru_vars, more_vars>>

\* get_block, the call of get_block_uncles and its expect
GetBlockUncles ==
    /\ IsSome(reader) /\ Unwrap(reader).pc = "uncles"
    /\ LET uncles == get_block_uncles(Unwrap(reader).h)
       IN  reader' = Some(IF IsSome(uncles)
                          THEN [Unwrap(reader) EXCEPT !.pc = "proposals", !.uncles = uncles]
                          ELSE [Unwrap(reader) EXCEPT
                                    !.pc = "done",
                                    !.ret = Panic("block uncles must be stored")])
    /\ UNCHANGED <<store_vars, batch_vars, init_vars, lru_vars, more_vars>>

\* get_block, the call of get_block_proposal_txs_ids, its expect and the build
GetBlockProposals ==
    /\ IsSome(reader) /\ Unwrap(reader).pc = "proposals"
    /\ LET proposals == get_block_proposal_txs_ids(Unwrap(reader).h)
           r == Unwrap(reader)
       IN  reader' = Some(IF IsSome(proposals)
                          THEN [r EXCEPT !.pc = "done",
                                         !.ret = Some([ header |-> Unwrap(r.header),
                                                        uncles |-> Unwrap(r.uncles),
                                                        transactions |-> Unwrap(r.transactions),
                                                        proposals |-> Unwrap(proposals) ])]
                          ELSE [r EXCEPT
                                    !.pc = "done",
                                    !.ret = Panic("block proposal_ids must be stored")])
    /\ UNCHANGED <<store_vars, batch_vars, init_vars, lru_vars, more_vars>>

\* get_block returns to its caller
GetBlockEnd ==
    /\ IsSome(reader) /\ Unwrap(reader).pc = "done"
    /\ reader' = None
    /\ UNCHANGED <<store_vars, batch_vars, init_vars, lru_vars, more_vars>>

\* a writer thread commits a batch, maybe in the middle of the reader's call
WriteBatchByReader(calls) ==
    /\ WriteBatch(calls)
    /\ reader' = IF IsSome(reader) /\ Unwrap(reader).pc # "done"
                 THEN Some([Unwrap(reader) EXCEPT !.raced = TRUE])
                 ELSE reader
    /\ UNCHANGED <<batch_vars, init_vars, lru_vars, more_vars>>

NextReader ==
    \/ \E calls \in Programs : WriteBatchByReader(calls)
    \/ \E h \in BlockHashes : GetBlockBegin(h)
    \/ GetBlockTransactions
    \/ GetBlockUncles
    \/ GetBlockProposals
    \/ GetBlockEnd
    \/ Reopen /\ UNCHANGED <<reader, batch_vars, init_vars, lru_vars, more_vars>>

SpecReader == Init /\ [][NextReader]_vars

(***************************************************************************)
(* A writer thread that fills a batch call by call, then commits or drops  *)
(* it, while getters run and the process may crash.  One batch is in       *)
(* flight at a time.                                                       *)
(***************************************************************************)
\* ChainStore::new_batch
NewBatch ==
    /\ pending = None
    /\ pending' = Some([calls |-> <<>>, inner |-> new_batch])
    /\ UNCHANGED <<store_vars, reader, event, durable, init_vars, lru_vars, more_vars>>

\* one StoreBatch call on the batch in flight: it goes to the buffer of the batch
BatchCall(call) ==
    /\ IsSome(pending)
    /\ Len(Unwrap(pending).calls) < MaxBatchOps
    /\ pending' = Some([ calls |-> Append(Unwrap(pending).calls, call),
                         inner |-> apply_call(Unwrap(pending).inner, call) ])
    /\ UNCHANGED <<store_vars, reader, event, durable, init_vars, lru_vars, more_vars>>

\* StoreBatch::commit of the batch in flight
CommitBatch ==
    /\ IsSome(pending)
    /\ db' = commit(db, Unwrap(pending).inner)
    /\ durable' = db_commit(durable, run_calls(new_batch, Unwrap(pending).calls))
    /\ History(Unwrap(pending).calls)
    /\ pending' = None
    /\ event' = "commit"
    /\ UNCHANGED <<header_cache, cell_output_cache, reader, init_vars, lru_vars, more_vars>>

\* the batch in flight goes out of scope without a commit
DropBatch ==
    /\ IsSome(pending)
    /\ pending' = None
    /\ event' = "drop"
    /\ UNCHANGED <<store_vars, reader, durable, init_vars, lru_vars, more_vars>>

\* the process dies and a new one opens the store over the same backend: the
\* batch in flight and the caches are gone, the committed rows are kept
Crash ==
    /\ pending' = None
    /\ header_cache' = <<>>
    /\ cell_output_cache' = <<>>
    /\ event' = IF IsSome(pending) /\ Unwrap(pending).calls # <<>>
                THEN "crash in batch" ELSE "crash"
    /\ UNCHANGED <<db, stored, attached, last_attach, trip, tip_written, reader, durable,
                   init_vars, lru_vars, more_vars>>

NextBatch ==
    \/ NewBatch
    \/ \E call \in Calls : BatchCall(call)
    \/ CommitBatch
    \/ DropBatch
    \/ Crash
    \/ \E tx_hash \in TxHashes, index \in OutputIndexes :
           GetCellOutput(tx_hash, index) /\ UNCHANGED others

SpecBatch == Init /\ [][NextBatch]_vars

\* the writer and the crashes alone, without getters in between
NextCrash ==
    \/ NewBatch
    \/ \E call \in Calls : BatchCall(call)
    \/ CommitBatch
    \/ DropBatch
    \/ Crash

SpecCrash == Init /\ [][NextCrash]_vars

(***************************************************************************)
(* A store that init seeds from a consensus descriptor and whose cell set  *)
(* the writers then update.                                                *)
(***************************************************************************)
\* history: the last CELL_SET operation on each tx_hash after the calls of a batch
RECURSIVE cell_last_after(_, _)
cell_last_after(last, calls) ==
    IF calls = <<>> THEN last
    ELSE cell_last_after(
             IF Head(calls).op \in {"update_cell_set", "delete_cell_set"}
             THEN [last EXCEPT ![Head(calls).tx_hash] = Head(calls)]
             ELSE last,
             Tail(calls))

\* history: the StoreBatch calls of init
init_calls(consensus) ==
    LET genesis == consensus.genesis_block
        hash == genesis.header.hash
    IN  [ i \in 1..Len(genesis.transactions) |->
              [ op |-> "update_cell_set",
                tx_hash |-> genesis.transactions[i].hash,
                meta |-> init_tx_meta(genesis, i) ] ]
        \o << [op |-> "insert_block", block |-> hash],
              [op |-> "insert_tip_header", block |-> hash],
              [op |-> "attach_block", block |-> hash] >>

\* ChainStore::init on a fresh store
InitStore(consensus) ==
    /\ init_call = None
    /\ db = EmptyDb
    /\ LET r == init(db, consensus)
       IN  /\ db' = r.db
           /\ init_call' = Some([consensus |-> consensus, ret |-> r.ret, clean |-> TRUE])
           /\ IF r.ret = Ok
              THEN /\ History(init_calls(consensus))
                   /\ cell_last' = cell_last_after(cell_last, init_calls(consensus))
              ELSE UNCHANGED <<stored, attached, last_attach, trip, tip_written, cell_last>>
    /\ UNCHANGED <<header_cache, cell_output_cache, reader, batch_vars, lru_vars, more_vars>>

\* a committed batch of update_cell_set and delete_cell_set calls
WriteCellSet(calls) ==
    /\ WriteBatch(calls)
    /\ cell_last' = cell_last_after(cell_last, calls)
    /\ init_call' = IF IsSome(init_call)
                    THEN Some([Unwrap(init_call) EXCEPT !.clean = FALSE])
                    ELSE None
    /\ UNCHANGED <<reader, batch_vars, lru_vars, more_vars>>

NextInit ==
    \/ \E consensus \in Consensuses : InitStore(consensus)
    \/ \E calls \in CellSetPrograms : WriteCellSet(calls)
    \/ \E hash \in GenesisHashes : GetBlockHeader(hash) /\ UNCHANGED others
    \/ GetTipHeader /\ UNCHANGED others
    \/ Reopen /\ UNCHANGED others

SpecInit == Init /\ [][NextInit]_vars

(***************************************************************************)
(* init over a backend that may fail one of the calls init makes.          *)
(***************************************************************************)
InitStoreWithFault(consensus, fault) ==
    /\ init_call = None
    /\ db = EmptyDb
    /\ LET r == init_with_fault(db, consensus, fault)
       IN  /\ db' = r.db
           /\ init_call' = Some([ consensus |-> consensus, ret |-> r.ret, clean |-> TRUE,
                                  fault |-> fault ])
           /\ IF r.ret = Ok
              THEN /\ History(init_calls(consensus))
                   /\ cell_last' = cell_last_after(cell_last, init_calls(consensus))
              ELSE UNCHANGED <<stored, attached, last_attach, trip, tip_written, cell_last>>
    /\ UNCHANGED <<header_cache, cell_output_cache, reader, batch_vars, lru_vars, more_vars>>

NextInitFault ==
    \/ \E consensus \in Consensuses :
           \E fault \in InitFaults(consensus) : InitStoreWithFault(consensus, fault)
    \/ \E hash \in GenesisHashes : GetBlockHeader(hash) /\ UNCHANGED others
    \/ GetTipHeader /\ UNCHANGED others
    \/ Reopen /\ UNCHANGED others

SpecInitFault == Init /\ [][NextInitFault]_vars

(***************************************************************************)
(* Reader threads in get_block_header, each one lock at a time: the probe, *)
(* the read of the backend after the lock is dropped, the fill under the   *)
(* second lock.  The stores are made with a header cache of any size up to *)
(* MaxLruSize, and a writer inserts blocks of a header.                    *)
(***************************************************************************)
InitLru ==
    /\ InitFresh
    /\ \E n \in 0..MaxLruSize : config = StoreConfig(n, CellOutputCacheSize)
    /\ dirs = [path \in DbPaths |-> "missing"]

\* history: hash is the most recently used
used(hash) == Append(SelectSeq(lru.recency, LAMBDA h : h # hash), hash)

lru_frame ==
    <<db, cell_output_cache, stored, attached, last_attach, trip, tip_written,
      reader, batch_vars, init_vars, config, more_vars>>

InsertHeaderBlock(hash) ==
    /\ WriteBatch(<<[op |-> "insert_block", block |-> hash]>>)
    /\ UNCHANGED <<reader, batch_vars, init_vars, lru_vars, more_vars>>

HeaderProbe(t, hash) ==
    LET probe == get_block_header_probe(hash)
    IN  /\ header_reads[t] = None
        /\ header_cache' = probe.cache
        /\ IF IsSome(probe.ret)
           THEN /\ lru' = [ recency |-> used(hash),
                            refreshed |-> \/ lru.refreshed
                                          \/ header_cache[Len(header_cache)][1] # hash ]
                /\ UNCHANGED header_reads
           ELSE /\ header_reads' =
                       [header_reads EXCEPT ![t] = Some([pc |-> "read", hash |-> hash])]
                /\ UNCHANGED lru
        /\ UNCHANGED lru_frame

HeaderRead(t) ==
    /\ IsSome(header_reads[t])
    /\ Unwrap(header_reads[t]).pc = "read"
    /\ LET hash == Unwrap(header_reads[t]).hash
           header == read_block_header(hash)
       IN  header_reads' =
               [header_reads EXCEPT ![t] =
                    IF IsSome(header)
                    THEN Some([pc |-> "fill", hash |-> hash, header |-> Unwrap(header)])
                    ELSE None]
    /\ UNCHANGED <<header_cache, lru>>
    /\ UNCHANGED lru_frame

HeaderFill(t) ==
    /\ IsSome(header_reads[t])
    /\ Unwrap(header_reads[t]).pc = "fill"
    /\ LET call == Unwrap(header_reads[t])
       IN  /\ header_cache' = get_block_header_fill(call.hash, call.header)
           /\ lru' = [lru EXCEPT !.recency = used(call.hash)]
    /\ header_reads' = [header_reads EXCEPT ![t] = None]
    /\ UNCHANGED lru_frame

NextLru ==
    \/ \E hash \in HeaderBlockHashes : InsertHeaderBlock(hash)
    \/ \E t \in ReaderThreads, hash \in HeaderBlockHashes : HeaderProbe(t, hash)
    \/ \E t \in ReaderThreads : HeaderRead(t)
    \/ \E t \in ReaderThreads : HeaderFill(t)

SpecLru == InitLru /\ [][NextLru]_vars

(***************************************************************************)
(* The writers of the epoch rows: insert_epoch_ext, insert_current_epoch_ext *)
(* and insert_block_epoch_index, in batches of up to MaxBatchOps calls.    *)
(***************************************************************************)
EpochCalls ==
    [op : {"insert_epoch_ext"}, hash : EpochAnchors, epoch : Epochs]
        \cup [op : {"insert_current_epoch_ext"}, epoch : Epochs]
        \cup [op : {"insert_block_epoch_index"}, block_hash : BlockHashes,
              epoch_hash : EpochAnchors]
EpochPrograms == UNION {[1..n -> EpochCalls] : n \in 1..MaxBatchOps}

\* history: the EPOCH rows after the calls of a committed batch
RECURSIVE epoch_last_after(_, _)
epoch_last_after(last, calls) ==
    IF calls = <<>> THEN last
    ELSE epoch_last_after(
             IF Head(calls).op = "insert_epoch_ext"
             THEN [ ext |-> [last.ext EXCEPT ![Head(calls).hash] = Some(Head(calls).epoch)],
                    index |-> [last.index EXCEPT ![Head(calls).epoch.number] =
                                   Some(Head(calls).hash)] ]
             ELSE last,
             Tail(calls))

WriteEpochBatch(calls) ==
    /\ WriteBatch(calls)
    /\ epoch_last' = epoch_last_after(epoch_last, calls)
    /\ UNCHANGED <<reader, batch_vars, init_vars, lru_vars, last_batch, dirs, compat,
                   in_flight, mutex>>

NextEpoch ==
    \/ \E calls \in EpochPrograms : WriteEpochBatch(calls)
    \/ Reopen /\ UNCHANGED others

SpecEpoch == Init /\ [][NextEpoch]_vars

(***************************************************************************)
(* The writers of block rows, the blocks of an empty body among them.      *)
(***************************************************************************)
NextBody ==
    \/ \E calls \in Programs : WriteBatch(calls) /\ UNCHANGED others
    \/ \E hash \in HeaderBlockHashes : InsertHeaderBlock(hash)

SpecBody == Init /\ [][NextBody]_vars

(***************************************************************************)
(* The writers of block rows and of BLOCK_EXT, beside get_block.           *)
(***************************************************************************)
\* the BlockExt of a block, before and after its transactions are verified
BlockExt(block, verified) ==
    [ received_at |-> block.header.timestamp,
      total_difficulty |-> block.header.difficulty,
      total_uncles_count |-> Len(block.uncles),
      verified |-> verified,
      txs_fees |-> <<>>,
      dao_stats |-> [accumulated_rate |-> "DEFAULT_ACCUMULATED_RATE", accumulated_capacity |-> 0] ]
BlockExtCalls ==
    { [op |-> "insert_block_ext", block_hash |-> b.header.hash, ext |-> BlockExt(b, v)] :
          b \in Blocks, v \in {None, Some(TRUE)} }
\* batches of insert_block, attach_block and detach_block, and batches of one
\* insert_block_ext
PayloadPrograms ==
    UNION {[1..n -> {c \in Calls : c.op # "insert_tip_header"}] : n \in 1..MaxBatchOps}
        \cup {<<c>> : c \in BlockExtCalls}

NextPayload ==
    \/ \E calls \in PayloadPrograms : WriteBatch(calls) /\ UNCHANGED others
    \/ \E hash \in BlockHashes : GetBlock(hash) /\ UNCHANGED others
    \/ Reopen /\ UNCHANGED others

SpecPayload == Init /\ [][NextPayload]_vars

(***************************************************************************)
(* Batches of several attach_block and detach_block calls.                 *)
(***************************************************************************)
\* batches of attach_block and detach_block calls, and batches of one insert_block
OrderPrograms ==
    UNION { [1..n -> {c \in Calls : IsAttachCall(c)}] : n \in 1..(MaxBatchOps + 1) }
        \cup {<<c>> : c \in {c \in Calls : c.op = "insert_block"}}

WriteOrdered(calls) ==
    /\ WriteBatch(calls)
    /\ last_batch' = calls
    /\ UNCHANGED <<reader, batch_vars, init_vars, lru_vars, epoch_last, dirs, compat,
                   in_flight, mutex>>

NextOrder ==
    \/ \E calls \in OrderPrograms : WriteOrdered(calls)
    \/ Reopen /\ UNCHANGED others

SpecOrder == Init /\ [][NextOrder]_vars

(***************************************************************************)
(* The init subcommand run interactively: check_db_compatibility(db_path), *)
(* then check_db_compatibility(indexer_db_path), over any two directories. *)
(***************************************************************************)
InitCompat ==
    /\ InitFresh
    /\ config = StoreConfig(HeaderCacheSize, CellOutputCacheSize)
    /\ dirs \in [DbPaths -> DirStates \ {"partial"}]

CheckDbCompatibility(path, input, outcome) ==
    LET r == check_db_compatibility(dirs[path], input, outcome)
    IN  /\ compat.pc = path
        /\ dirs' = [dirs EXCEPT ![path] = r.dir]
        /\ compat' =
               [ pc |-> IF path = "db" THEN "indexer_db" ELSE "done",
                 log |-> [compat.log EXCEPT ![path] =
                              Some([ before |-> dirs[path],
                                     prompted |-> r.prompted,
                                     input |-> IF r.prompted THEN Some(input) ELSE None ])] ]
        /\ UNCHANGED <<store_vars, reader, batch_vars, init_vars, lru_vars, epoch_last,
                       last_batch, in_flight, mutex>>

NextCompat ==
    \E path \in DbPaths, input \in Inputs, outcome \in RemoveOutcomes :
        CheckDbCompatibility(path, input, outcome)

SpecCompat == InitCompat /\ [][NextCompat]_vars

(***************************************************************************)
(* The getters, thread by thread and lock by lock.  A getter that touches  *)
(* a cache locks its Mutex and probes; on a hit it returns, the guard      *)
(* dropped by the return; on a miss it drops the guard, reads the backend  *)
(* and, when there is a value, locks again to insert it.  in_flight[t] is  *)
(* the call thread t is in: the getter, the cache and key it goes through, *)
(* where it is, and the value it has read.                                 *)
(***************************************************************************)
\* the key a cache keeps for the arguments of a getter
CacheKey(cache, key) == IF cache = "header_cache" THEN key[1] ELSE key
CacheOf(cache) == IF cache = "header_cache" THEN header_cache ELSE cell_output_cache
CacheOfNext(cache) == IF cache = "header_cache" THEN header_cache' ELSE cell_output_cache'
\* the cache named becomes value, the other cache stays
SetCache(cache, value) ==
    IF cache = "header_cache"
    THEN header_cache' = value /\ UNCHANGED cell_output_cache
    ELSE cell_output_cache' = value /\ UNCHANGED header_cache
SizeOf(cache) ==
    IF cache = "header_cache" THEN config.header_cache_size
    ELSE config.cell_output_cache_size

\* Mutex::lock, of a Mutex nobody holds
lock(guards, cache, t) == [guards EXCEPT ![cache] = Some(t)]
\* a drop that leaves the Mutex locked
drop_keeping_lock(guards, cache) == guards
\* drop(header_cache_unlocked), drop(cell_output_cache_unlocked)
drop(guards, cache) == [guards EXCEPT ![cache] = None]

\* the probe, the backend read and the insert of the getter that goes
\* through the cache; key is the tuple of the arguments of the getter
cache_probe(cache, key) ==
    IF cache = "header_cache" THEN get_block_header_probe(key[1])
    ELSE get_cell_output_probe(key[1], key[2])
backend_read(cache, key) ==
    IF cache = "header_cache" THEN read_block_header(key[1])
    ELSE read_cell_output(key[1], key[2])
cache_fill(cache, key, value) ==
    IF cache = "header_cache" THEN get_block_header_fill(key[1], value)
    ELSE get_cell_output_fill(key[1], key[2], value)

InFlight(t) == IsSome(in_flight[t])
At(t, pc) == InFlight(t) /\ Unwrap(in_flight[t]).pc = pc
Goes(t, pc) == [in_flight EXCEPT ![t] = Some([Unwrap(in_flight[t]) EXCEPT !.pc = pc])]
Returns(t) == [in_flight EXCEPT ![t] = None]

getter_frame ==
    <<db, stored, attached, last_attach, trip, tip_written, reader, batch_vars,
      init_vars, lru_vars, epoch_last, last_batch, dirs, compat>>

\* thread t calls get_block_header(key), get_block(key) or get_cell_output(key)
GetterCall(t, op, cache, key) ==
    /\ ~InFlight(t)
    /\ in_flight' = [in_flight EXCEPT ![t] =
            Some([op |-> op, cache |-> cache, key |-> key, pc |-> "lock", value |-> None])]
    /\ UNCHANGED <<header_cache, cell_output_cache, mutex, getter_frame>>

\* thread t calls get_tip_header: the read of the tip row, and with a tip the
\* call of get_block_header that follows
GetTipHeaderCall(t) ==
    LET raw == get(COLUMN_META, META_TIP_HEADER_KEY)
    IN  /\ ~InFlight(t)
        /\ in_flight' = [in_flight EXCEPT ![t] =
                IF IsSome(raw)
                THEN Some([ op |-> "get_tip_header", cache |-> "header_cache",
                            key |-> <<from_slice(Unwrap(raw))>>, pc |-> "lock",
                            value |-> None ])
                ELSE None]
        /\ UNCHANGED <<header_cache, cell_output_cache, mutex, getter_frame>>

\* the first lock and get_refresh: a hit ends get_block_header and
\* get_cell_output, a miss leaves the thread with the guard
GetterProbe(t) ==
    /\ At(t, "lock")
    /\ LET call == Unwrap(in_flight[t])
           probe == cache_probe(call.cache, call.key)
       IN  /\ mutex[call.cache] = None
           /\ SetCache(call.cache, probe.cache)
           /\ IF ~IsSome(probe.ret)
              THEN /\ mutex' = lock(mutex, call.cache, t)
                   /\ in_flight' = Goes(t, "miss")
              ELSE /\ mutex' = mutex
                   /\ in_flight' =
                          IF call.op = "get_block"
                          THEN [in_flight EXCEPT ![t] =
                                   Some([call EXCEPT !.pc = "rest", !.value = probe.ret])]
                          ELSE Returns(t)
    /\ UNCHANGED getter_frame

\* the drop of the guard after a miss
GetterDrop(t) ==
    /\ At(t, "miss")
    /\ mutex' = drop(mutex, Unwrap(in_flight[t]).cache)
    /\ in_flight' = Goes(t, "read")
    /\ UNCHANGED <<header_cache, cell_output_cache, getter_frame>>

\* the read of the backend after a miss: without a row the getter returns None
GetterRead(t) ==
    /\ At(t, "read")
    /\ LET call == Unwrap(in_flight[t])
           value == backend_read(call.cache, call.key)
       IN  in_flight' =
               IF IsSome(value)
               THEN [in_flight EXCEPT ![t] =
                        Some([call EXCEPT !.pc = "relock", !.value = value])]
               ELSE Returns(t)
    /\ UNCHANGED <<header_cache, cell_output_cache, mutex, getter_frame>>

\* the second lock and the insert of the value read; the guard goes at the
\* end of the closure
GetterFill(t) ==
    /\ At(t, "relock")
    /\ LET call == Unwrap(in_flight[t])
       IN  /\ mutex[call.cache] = None
           /\ SetCache(call.cache, cache_fill(call.cache, call.key, Unwrap(call.value)))
           /\ in_flight' = IF call.op = "get_block" THEN Goes(t, "rest") ELSE Returns(t)
    /\ UNCHANGED <<mutex, getter_frame>>

\* get_block with the header: the reads of the body, the uncles and the
\* proposals, and the return of the block or the panic of an expect; the
\* thread holds no guard either way
GetBlockRest(t) ==
    /\ At(t, "rest")
    /\ in_flight' = Returns(t)
    /\ UNCHANGED <<header_cache, cell_output_cache, mutex, getter_frame>>

\* what thread t does once it is in a call
GetterStep(t) ==
    \/ GetterProbe(t)
    \/ GetterDrop(t)
    \/ GetterRead(t)
    \/ GetterFill(t)
    \/ GetBlockRest(t)

\* a writer that stores a block, attaches it and makes it the tip, in one batch
StoreBlock(hash) ==
    /\ WriteBatch(<< [op |-> "insert_block", block |-> hash],
                     [op |-> "attach_block", block |-> hash],
                     [op |-> "insert_tip_header", block |-> hash] >>)
    /\ UNCHANGED <<reader, batch_vars, init_vars, lru_vars, more_vars>>

\* the keys the getter threads ask for
LockHeaderKeys == {<<"b1">>}
LockCellKeys == {<<"t1", 0>>}

NextLock ==
    \/ \E key \in LockHeaderKeys : StoreBlock(key[1])
    \/ \E t \in ReaderThreads, op \in {"get_block_header", "get_block"},
          key \in LockHeaderKeys : GetterCall(t, op, "header_cache", key)
    \/ \E t \in ReaderThreads, key \in LockCellKeys :
          GetterCall(t, "get_cell_output", "cell_output_cache", key)
    \/ \E t \in ReaderThreads : GetTipHeaderCall(t)
    \/ \E t \in ReaderThreads : GetterStep(t)

SpecLock == Init /\ [][NextLock]_vars

\* fair scheduling and a backend that answers: a thread that is in a call
\* and can step does step, and a thread that waits for a Mutex that is free
\* again and again gets it
SpecLockFair == SpecLock /\ \A t \in ReaderThreads : SF_vars(GetterStep(t))

\* a store of any configuration up to the sizes under check, 0 included
InitRace ==
    /\ InitFresh
    /\ config \in { StoreConfig(n, m) : n \in 0..HeaderCacheSize,
                                        m \in 0..CellOutputCacheSize }
    /\ dirs = [path \in DbPaths |-> "missing"]

\* the keys the racing threads ask for
RaceHeaderKeys == {<<"b1">>, <<"b2">>}
RaceCellKeys == {<<"t1", 0>>}

\* threads in get_block_header and get_cell_output, while blocks are stored
NextRace ==
    \/ \E key \in RaceHeaderKeys : StoreBlock(key[1])
    \/ \E t \in ReaderThreads, key \in RaceHeaderKeys :
          GetterCall(t, "get_block_header", "header_cache", key)
    \/ \E t \in ReaderThreads, key \in RaceCellKeys :
          GetterCall(t, "get_cell_output", "cell_output_cache", key)
    \/ \E t \in ReaderThreads : GetterProbe(t)
    \/ \E t \in ReaderThreads : GetterDrop(t)
    \/ \E t \in ReaderThreads : GetterRead(t)
    \/ \E t \in ReaderThreads : GetterFill(t)

SpecRace == InitRace /\ [][NextRace]_vars

(***************************************************************************)
(* Properties.                                                             *)
(***************************************************************************)
\* the last attach_block or detach_block that was committed is attach_block(block)
JustAttached(block) ==
    last_attach = Some([op |-> "attach_block", block |-> block.header.hash])
\* the last attach_block or detach_block that was committed is detach_block(block)
JustDetached(block) ==
    last_attach = Some([op |-> "detach_block", block |-> block.header.hash])
TxIndexes(block) == 0..(Len(block.transactions) - 1)
TxAt(block, i) == block.transactions[i + 1]
OutIndexes(tx) == 0..(Len(tx.outputs) - 1)
\* the last position in the block of a transaction with this hash
LastPosition(block, tx_hash) ==
    CHOOSE i \in TxIndexes(block) :
        /\ TxAt(block, i).hash = tx_hash
        /\ \A k \in TxIndexes(block) : TxAt(block, k).hash = tx_hash => k <= i
\* the rows (column, key) that attach_block(block) writes
AttachKeys(block) ==
    LET batch == attach_block(new_batch, block)
    IN  {<<batch[i].col, batch[i].key>> : i \in 1..Len(batch)}
\* an attach_block(B); commit; detach_block(B); commit sequence has just completed
RoundTripDone == IsSome(trip) /\ Unwrap(trip).phase = "detached"

\* C1: once a batch with insert_block(B) is committed, get_block_header,
\* get_block_body, get_block_uncles and get_block_proposal_txs_ids return the
\* parts of B, and get_block returns B.
C1_InsertedBlockReadsBack ==
    \A hash \in stored :
        LET block == BlockOf(hash)
        IN  /\ get_block_header(hash).ret = Some(block.header)
            /\ get_block_body(hash) = Some(block.transactions)
            /\ get_block_uncles(hash) = Some(block.uncles)
            /\ get_block_proposal_txs_ids(hash) = Some(block.proposals)
            /\ get_block(hash).ret = Some(block)
\* both blocks are stored, and one of the headers is served by the cache
C1_Witness == stored = BlockHashes /\ header_cache # <<>>

\* C2 as stated: attach_block(B); commit; detach_block(B); commit leaves
\* TRANSACTION_ADDR, CELL_META, INDEX and UNCLES as they were before the attach,
\* whatever the store held before.
C2_RoundTripRestoresAnyState ==
    RoundTripDone => AttachRows(db) = Unwrap(trip).pre
\* C2 as amended: attach_block(B); commit; detach_block(B); commit leaves the
\* four columns as they were before the attach, provided that none of the rows
\* attach_block(B) writes was present before the attach.
C2_RoundTripRestoresAbsentRows ==
    (/\ RoundTripDone
     /\ \A ck \in AttachKeys(BlockOf(Unwrap(trip).block)) :
            ck[2] \notin DOMAIN Unwrap(trip).pre[ck[1]])
    => AttachRows(db) = Unwrap(trip).pre
\* a round trip has completed over rows of another block, none of them a row of B
C2_Witness ==
    /\ RoundTripDone
    /\ \A ck \in AttachKeys(BlockOf(Unwrap(trip).block)) :
           ck[2] \notin DOMAIN Unwrap(trip).pre[ck[1]]
    /\ \E col \in AttachColumns : Unwrap(trip).pre[col] # <<>>

\* C3: get_cell_output(tx_hash, j) returns what the lookup TRANSACTION_ADDR ->
\* BLOCK_BODY.output returns over the committed rows; None once a committed
\* detach_block has removed the address.
C3_CellOutputCoherent ==
    \A tx_hash \in TxHashes, index \in OutputIndexes :
        get_cell_output(tx_hash, index).ret = read_cell_output(tx_hash, index)

\* C4: get_block_header(h) returns what decoding the committed BLOCK_HEADER row
\* of h gives, and get_tip_header what decoding the row of the tip hash gives,
\* whatever the header cache holds (warm, cold, or of a new store instance).
C4_HeaderCoherent ==
    /\ \A hash \in BlockHashes : get_block_header(hash).ret = read_block_header(hash)
    /\ get_tip_header.ret =
           IF IsSome(get(COLUMN_META, META_TIP_HEADER_KEY))
           THEN read_block_header(from_slice(Unwrap(get(COLUMN_META, META_TIP_HEADER_KEY))))
           ELSE None
\* the tip is set and its header is served by the cache
C4_Witness ==
    /\ IsSome(get(COLUMN_META, META_TIP_HEADER_KEY))
    /\ from_slice(Unwrap(get(COLUMN_META, META_TIP_HEADER_KEY))) \in LruKeys(header_cache)
    /\ IsSome(get_tip_header.ret)

\* C5: right after attach_block(B) is committed, get_block_hash(B.number) is
\* B.hash and get_block_number(B.hash) is B.number.
C5_IndexAfterAttach ==
    \A block \in Blocks :
        JustAttached(block) =>
            /\ get_block_hash(block.header.number) = Some(block.header.hash)
            /\ get_block_number(block.header.hash) = Some(block.header.number)
\* b2 has just been attached over b1, a block of the same number
C5_Witness == JustAttached(BlockB2) /\ "b1" \in attached

\* C6 as stated: right after attach_block(B) is committed,
\* get_transaction_address(tx_i.hash) is (B.hash, i) for every position i of B.
C6_AddressNamesEveryPosition ==
    \A block \in Blocks :
        JustAttached(block) =>
            \A i \in TxIndexes(block) :
                get_transaction_address(TxAt(block, i).hash)
                    = Some([block_hash |-> block.header.hash, index |-> i])
\* C6 as amended: right after attach_block(B) is committed,
\* get_transaction_address(tx_i.hash) is (B.hash, k), k the last position in B
\* of a transaction with the hash of tx_i (k = i when no later transaction of B
\* has that hash).
C6_AddressNamesLastPosition ==
    \A block \in Blocks :
        JustAttached(block) =>
            \A i \in TxIndexes(block) :
                get_transaction_address(TxAt(block, i).hash)
                    = Some([ block_hash |-> block.header.hash,
                             index |-> LastPosition(block, TxAt(block, i).hash) ])
\* b2, which carries t1 at two positions, has just been attached
C6_Witness ==
    /\ JustAttached(BlockB2)
    /\ get_transaction_address("t1") = Some([block_hash |-> "b2", index |-> 2])

\* C7 as stated: right after attach_block(B) is committed,
\* get_transaction(tx_i.hash) is (tx_i, B.hash) for every transaction of B.
C7_TransactionAfterAttach ==
    \A block \in Blocks :
        JustAttached(block) =>
            \A i \in TxIndexes(block) :
                get_transaction(TxAt(block, i).hash)
                    = Some(<<TxAt(block, i), block.header.hash>>)
\* C7 as amended: right after attach_block(B) is committed, for a block B that
\* a committed insert_block(B) has stored, get_transaction(tx_i.hash) is
\* (tx_i, B.hash) for every transaction of B.
C7_TransactionAfterAttachOfStored ==
    \A block \in Blocks :
        (JustAttached(block) /\ block.header.hash \in stored) =>
            \A i \in TxIndexes(block) :
                get_transaction(TxAt(block, i).hash)
                    = Some(<<TxAt(block, i), block.header.hash>>)
\* a stored block has just been attached
C7_Witness ==
    \E block \in Blocks :
        /\ JustAttached(block) /\ block.header.hash \in stored
        /\ IsSome(get_transaction(TxAt(block, 1).hash))

\* C8 as stated: after attach_block(B) is committed, get_cell_meta(tx_i.hash, j)
\* and get_cell_output(tx_i.hash, j) are present for every output of B.
C8_CellsPresentAfterAttach ==
    \A block \in Blocks :
        JustAttached(block) =>
            \A i \in TxIndexes(block) : \A j \in OutIndexes(TxAt(block, i)) :
                /\ IsSome(get_cell_meta(TxAt(block, i).hash, j))
                /\ IsSome(get_cell_output(TxAt(block, i).hash, j).ret)
\* C8 as amended: after attach_block(B) is committed, get_cell_meta(tx_i.hash, j)
\* is present for every output of B, and get_cell_output(tx_i.hash, j) is
\* present for every output of B if a committed insert_block(B) has stored B.
C8_CellsPresentAfterAttachOfStored ==
    \A block \in Blocks :
        JustAttached(block) =>
            \A i \in TxIndexes(block) : \A j \in OutIndexes(TxAt(block, i)) :
                /\ IsSome(get_cell_meta(TxAt(block, i).hash, j))
                /\ block.header.hash \in stored =>
                       IsSome(get_cell_output(TxAt(block, i).hash, j).ret)
\* a stored block has just been attached and the cell-output cache is cold
C8_Witness ==
    \E block \in Blocks :
        /\ JustAttached(block) /\ block.header.hash \in stored
        /\ cell_output_cache = <<>>
        /\ IsSome(get_cell_meta("t1", 1))

\* C9: after attach_block(B) and then detach_block(B) are committed, every
\* attachment lookup for B reports absence.
C9_AbsentAfterDetach ==
    \A block \in Blocks :
        JustDetached(block) =>
            /\ get_block_hash(block.header.number) = None
            /\ get_block_number(block.header.hash) = None
            /\ \A i \in TxIndexes(block) :
                   /\ get_transaction_address(TxAt(block, i).hash) = None
                   /\ get_transaction(TxAt(block, i).hash) = None
                   /\ \A j \in OutIndexes(TxAt(block, i)) :
                          get_cell_meta(TxAt(block, i).hash, j) = None
            /\ \A u \in UncleHashesOf(block) : ~is_uncle(u)
\* attach_block(B); commit; detach_block(B); commit has just completed on a
\* stored block
C9_Witness ==
    /\ RoundTripDone
    /\ Unwrap(trip).block \in stored
    /\ JustDetached(BlockOf(Unwrap(trip).block))

\* the blocks that embed the uncle u
Embedding(u) == {b \in Blocks : u \in UncleHashesOf(b)}

\* C10 as stated: is_uncle(h) is true exactly for the hashes that are an uncle
\* of a block that is attached and not detached since.
C10_UnclesExactlyOfAttached ==
    \A u \in UncleHashes :
        is_uncle(u) <=> (\E b \in Embedding(u) : b.header.hash \in attached)
\* C10 as amended: is_uncle(h) is true only for hashes that are an uncle of a
\* block that is attached and not detached since; and it is true for every
\* such hash that no second block embeds.
C10_UnclesOnlyOfAttached ==
    \A u \in UncleHashes :
        /\ is_uncle(u) => (\E b \in Embedding(u) : b.header.hash \in attached)
        /\ Cardinality(Embedding(u)) = 1 =>
               ((\E b \in Embedding(u) : b.header.hash \in attached) => is_uncle(u))
\* b2 is attached and its own uncle u2 is marked, after a detach
C10_Witness ==
    /\ "b2" \in attached
    /\ is_uncle("u2")
    /\ \E b \in Blocks : JustDetached(b)

\* C11 as stated: the two INDEX rows of a block, number -> hash and
\* hash -> number, are both present exactly when the block is attached.
C11_IndexIffAttached ==
    \A block \in Blocks :
        (/\ get_block_hash(block.header.number) = Some(block.header.hash)
         /\ get_block_number(block.header.hash) = Some(block.header.number))
            <=> block.header.hash \in attached

\* C11 amended: the hash -> number row of a block is present exactly when the
\* block is attached; the number -> hash row names a block only if that block
\* is attached; and get_block_hash(n) = h implies get_block_number(h) = n.
C11_IndexOnlyOfAttached ==
    /\ \A block \in Blocks :
           /\ get_block_number(block.header.hash) = Some(block.header.number)
                  <=> block.header.hash \in attached
           /\ IsSome(get_block_number(block.header.hash))
                  <=> block.header.hash \in attached
           /\ get_block_hash(block.header.number) = Some(block.header.hash)
                  => block.header.hash \in attached
    /\ \A n \in Numbers, h \in BlockHashes :
           get_block_hash(n) = Some(h) => get_block_number(h) = Some(n)

\* two blocks of one number are attached: the number names the later one
C11_Witness ==
    /\ attached = BlockHashes
    /\ \E block \in Blocks :
           /\ get_block_hash(block.header.number) = Some(block.header.hash)
           /\ get_block_number(block.header.hash) = Some(block.header.number)
    /\ \E block \in Blocks :
           /\ get_block_hash(block.header.number) # Some(block.header.hash)
           /\ get_block_number(block.header.hash) = Some(block.header.number)

\* the hash stored under META/TIP_HEADER
TipHash ==
    LET raw == get(COLUMN_META, META_TIP_HEADER_KEY)
    IN  IF IsSome(raw) THEN Some(from_slice(Unwrap(raw))) ELSE None

BlockColumns ==
    {COLUMN_BLOCK_HEADER, COLUMN_BLOCK_BODY, COLUMN_BLOCK_UNCLE, COLUMN_BLOCK_PROPOSAL_IDS}

\* C12: a block hash that has a BLOCK_HEADER row has BLOCK_BODY, BLOCK_UNCLE and
\* BLOCK_PROPOSAL_IDS rows too, so get_block never aborts on a missing row,
\* neither as one step nor as a reader whose four reads interleave with
\* commits of insert_block; what it returns is the inserted block.
C12_BlockRowsComplete ==
    /\ \A h \in BlockHashes :
           /\ IsSome(get(COLUMN_BLOCK_HEADER, as_bytes(h)))
                  => \A col \in BlockColumns : IsSome(get(col, as_bytes(h)))
           /\ ~IsPanic(get_block(h).ret)
    /\ IsSome(reader) =>
           /\ ~IsPanic(Unwrap(reader).ret)
           /\ IsSome(Unwrap(reader).ret)
                  => Unwrap(reader).ret = Some(BlockOf(Unwrap(reader).h))

\* a get_block that a commit fell into has returned the block
C12_Witness ==
    /\ IsSome(reader)
    /\ Unwrap(reader).pc = "done"
    /\ Unwrap(reader).raced
    /\ Unwrap(reader).ret = Some(BlockOf(Unwrap(reader).h))

\* what the getters return, for every input
GetterView ==
    [ header |-> [h \in BlockHashes |-> get_block_header(h).ret],
      body |-> [h \in BlockHashes |-> get_block_body(h)],
      uncles |-> [h \in BlockHashes |-> get_block_uncles(h)],
      proposals |-> [h \in BlockHashes |-> get_block_proposal_txs_ids(h)],
      hash |-> [n \in Numbers |-> get_block_hash(n)],
      number |-> [h \in BlockHashes |-> get_block_number(h)],
      tip |-> get_tip_header.ret,
      uncle |-> [u \in UncleHashes |-> is_uncle(u)],
      address |-> [t \in TxHashes |-> get_transaction_address(t)],
      transaction |-> [t \in TxHashes |-> get_transaction(t)],
      cell_meta |-> [t \in TxHashes |-> [i \in OutputIndexes |-> get_cell_meta(t, i)]],
      cell_output |-> [t \in TxHashes |-> [i \in OutputIndexes |-> get_cell_output(t, i).ret]] ]

\* a step of the writer that opens a batch, issues a call on the batch in
\* flight or drops it
UncommittedStep ==
    \/ IsSome(pending') /\ pending' # pending
    \/ IsSome(pending) /\ pending' = None /\ event' = "drop"

\* a step that commits the batch in flight
CommitStep == IsSome(pending) /\ pending' = None /\ event' = "commit"

\* no getter result changes while a batch is filled or when it is dropped
UncommittedInvisible == [][UncommittedStep => GetterView' = GetterView]_vars

\* every cached getter returns what the committed rows give
GettersObserveRows ==
    /\ \A h \in BlockHashes : get_block_header(h).ret = read_block_header(h)
    /\ \A t \in TxHashes, i \in OutputIndexes :
           get_cell_output(t, i).ret = read_cell_output(t, i)

\* C14: no getter result changes while a batch is filled or when it is
\* dropped, and once a batch is committed every getter returns what the rows
\* with all writes of the batch applied give.
C14_OnlyCommittedWritesObserved ==
    [][ /\ UncommittedStep => GetterView' = GetterView
        /\ CommitStep =>
               /\ db' = db_commit(db, run_calls(new_batch, Unwrap(pending).calls))
               /\ GettersObserveRows' ]_vars

\* the store has been recovered after a crash and nothing was committed since
Recovered == event \in {"crash", "crash in batch"}

\* the row (column, key) is in the backend
RowPresent(k) == k[2] \in DOMAIN db[k[1]]

\* C15: after a crash the rows are those of the committed batches applied in
\* commit order, with nothing of the batch that was in flight; the rows of the
\* last committed attach_block(B) are all there, and none when the last
\* committed call on B was detach_block(B).
C15_CrashKeepsCommittedBatches ==
    Recovered =>
        /\ db = durable
        /\ \A block \in Blocks :
               /\ JustAttached(block) => \A k \in AttachKeys(block) : RowPresent(k)
               /\ JustDetached(block) => \A k \in AttachKeys(block) : ~RowPresent(k)

\* the process crashed with calls in the batch in flight, after an
\* attach_block was committed
C15_Witness ==
    /\ event = "crash in batch"
    /\ \E block \in Blocks : JustAttached(block)

\* init has returned Ok(()) on this store
InitSucceeded == IsSome(init_call) /\ Unwrap(init_call).ret = Ok
\* the genesis block of the consensus descriptor init was given
InitGenesis == Unwrap(init_call).consensus.genesis_block

\* C16: after init(consensus) succeeds on a fresh store, get_block_hash(0) is
\* the genesis hash, get_block_number(genesis_hash) is the genesis number,
\* get_tip_header is the genesis header and the total_difficulty of
\* get_block_ext(genesis_hash) is the difficulty of the genesis header.
C16_GenesisReadsBackAfterInit ==
    InitSucceeded =>
        LET genesis == InitGenesis
            hash == genesis.header.hash
        IN  /\ get_block_hash(0) = Some(hash)
            /\ get_block_number(hash) = Some(genesis.header.number)
            /\ get_tip_header.ret = Some(genesis.header)
            /\ IsSome(get_block_ext(hash))
            /\ Unwrap(get_block_ext(hash)).total_difficulty = genesis.header.difficulty

\* init has succeeded and the tip header has been read through the cache
C16_Witness ==
    /\ InitSucceeded
    /\ InitGenesis.header.hash \in LruKeys(header_cache)
    /\ Unwrap(get_block_ext(InitGenesis.header.hash)).total_difficulty = 100

\* the sum of the capacities of outputs, as an unbounded integer
RECURSIVE SumCapacity(_)
SumCapacity(outputs) ==
    IF outputs = <<>> THEN 0 ELSE Head(outputs).capacity + SumCapacity(Tail(outputs))

\* the capacities of outputs 1..n-1 of the first genesis transaction, summed
GenesisCapacity(genesis) ==
    IF genesis.transactions = <<>> THEN 0
    ELSE SumCapacity(Tail(genesis.transactions[1].outputs))

\* C17: the genesis BlockExt that init writes has accumulated_capacity equal
\* to the sum of the capacities of outputs 1..n-1 of the first genesis
\* transaction (0 without a transaction or with at most one output); init
\* aborts, and stores nothing, exactly when that sum does not fit a Capacity.
C17_AccumulatedCapacityOfGenesis ==
    IsSome(init_call) =>
        LET genesis == InitGenesis
            ret == Unwrap(init_call).ret
        IN  /\ GenesisCapacity(genesis) <= CapacityMax =>
                   /\ ret = Ok
                   /\ Unwrap(get_block_ext(genesis.header.hash)).dao_stats.accumulated_capacity
                          = GenesisCapacity(genesis)
            /\ GenesisCapacity(genesis) > CapacityMax =>
                   /\ IsPanic(ret)
                   /\ get_block_ext(genesis.header.hash) = None
                   /\ \A col \in Columns \ {COLUMN_CELL_SET} : DOMAIN db[col] = {}

\* init has succeeded on a genesis block whose first transaction has the
\* greatest capacity in output 0 and two more outputs
C17_Witness ==
    /\ InitSucceeded
    /\ InitGenesis.header.hash = "g2"
    /\ Unwrap(get_block_ext("g2")).dao_stats.accumulated_capacity = 7

\* init has succeeded and no batch was committed since
JustInitialized == InitSucceeded /\ Unwrap(init_call).clean

\* the TransactionMeta of a genesis transaction with every output live
GenesisMeta(genesis, tx, cellbase) ==
    [ block_number |-> genesis.header.number,
      epoch_number |-> genesis.header.epoch,
      cellbase |-> cellbase,
      dead_cell |-> [i \in 1..Len(tx.outputs) |-> FALSE] ]

C19_CellSetLastWriteWins ==
    /\ traverse_cell_set =
           { <<tx_hash, cell_last[tx_hash].meta>> :
                 tx_hash \in {h \in CellSetHashes : cell_last[h].op = "update_cell_set"} }
    /\ \A tx_hash \in CellSetHashes :
           Cardinality({row \in traverse_cell_set : row[1] = tx_hash})
               = (IF cell_last[tx_hash].op = "update_cell_set" THEN 1 ELSE 0)

\* an entry that init wrote was deleted, another was overwritten
C19_Witness ==
    /\ InitSucceeded
    /\ \E deleted, updated \in CellSetHashes :
           /\ cell_last[deleted].op = "delete_cell_set"
           /\ cell_last[updated].op = "update_cell_set"
           /\ \E tx \in TxsOf(InitGenesis) :
                  /\ tx.hash = updated
                  /\ cell_last[updated].meta # init_tx_meta(InitGenesis, 1)
                  /\ cell_last[updated].meta # init_tx_meta(InitGenesis, 2)
           /\ \E tx \in TxsOf(InitGenesis) : tx.hash = deleted

\* the keys of a cache, the least recently used first
LruKeySeq(cache) == [i \in 1..Len(cache) |-> cache[i][1]]
\* the last n elements of a sequence, all of it when it is shorter
LastN(seq, n) == SubSeq(seq, IF Len(seq) > n THEN Len(seq) - n + 1 ELSE 1, Len(seq))

\* C20: a header cache of capacity N holds exactly the N hashes (all of them,
\* when fewer were used) that get_block_header found most recently, in the order
\* of their last use, a hit counting as a use: what was evicted is the least
\* recently used.
C20_HeaderCacheIsStrictLru ==
    LruKeySeq(header_cache) = LastN(lru.recency, config.header_cache_size)

\* N + 1 distinct stored hashes were read through a cache of N >= 2 entries, a
\* hit refreshed an entry that was not the most recent one, and the cache is
\* full without the hash that was inserted first or second
C20_Witness ==
    /\ config.header_cache_size >= 2
    /\ Len(lru.recency) = config.header_cache_size + 1
    /\ lru.refreshed
    /\ Len(header_cache) = config.header_cache_size
    /\ lru.recency[1] \notin LruKeys(header_cache)

\* C22: get_epoch_ext(anchor) returns the epoch of the last committed
\* insert_epoch_ext on that anchor and get_epoch_index(number) the anchor of the
\* last committed insert_epoch_ext of an epoch of that number; the two rows of a
\* call are committed together, so in every state an epoch that reads back has
\* an index row for its number and an anchor that reads back has its epoch.
C22_EpochExtAndIndexTogether ==
    /\ \A anchor \in EpochAnchors : get_epoch_ext(anchor) = epoch_last.ext[anchor]
    /\ \A number \in EpochNumbers : get_epoch_index(number) = epoch_last.index[number]
    /\ \A anchor \in EpochAnchors :
           IsSome(get_epoch_ext(anchor)) =>
               IsSome(get_epoch_index(Unwrap(get_epoch_ext(anchor)).number))
    /\ \A number \in EpochNumbers :
           IsSome(get_epoch_index(number)) =>
               IsSome(get_epoch_ext(Unwrap(get_epoch_index(number))))

\* two anchors were given two epochs of the same number, the second after the
\* first, and an epoch of another number reads back beside them
C22_Witness ==
    /\ get_epoch_ext("a0") = Some(EpochE1)
    /\ get_epoch_ext("a1") = Some(EpochE1x)
    /\ get_epoch_index(1) = Some("a1")
    /\ get_epoch_index(0) = Some("a0")
    /\ IsSome(get_current_epoch_ext)
    /\ IsSome(get_block_epoch_index("b1"))

\* C23: get_cellbase(h) is None when no insert_block wrote h, the first
\* transaction of the block when the block inserted has transactions, and aborts
\* exactly when the block inserted has none; it aborts for no hash while every
\* block inserted has a transaction.
C23_CellbaseOfStoredBody ==
    /\ \A h \in BlockHashes \cup HeaderBlockHashes :
           /\ h \notin stored => get_cellbase(h) = None
           /\ h \in stored /\ BlockOf(h).transactions # <<>> =>
                  get_cellbase(h) = Some(BlockOf(h).transactions[1])
           /\ IsPanic(get_cellbase(h)) <=> h \in stored /\ BlockOf(h).transactions = <<>>
    /\ (\A h \in stored : BlockOf(h).transactions # <<>>) =>
           \A h \in BlockHashes \cup HeaderBlockHashes : ~IsPanic(get_cellbase(h))

\* a block with transactions and a block without were inserted, a third was not
C23_Witness ==
    /\ get_cellbase("b2") = Some(TxC2)
    /\ IsPanic(get_cellbase("h1"))
    /\ get_cellbase("b1") = None
    /\ "b1" \in attached

\* the five payload columns of a block
PayloadColumns == BlockColumns \cup {COLUMN_BLOCK_EXT}

\* a block that get_block returns is returned by get_block after any step
BlockReadsStay ==
    \A h \in BlockHashes :
        IsSome(get_block(h).ret) => get_block(h).ret' = get_block(h).ret

\* a committed detach_block of any block leaves the five payload columns as
\* they are
DetachKeepsPayload ==
    \A block \in Blocks, col \in PayloadColumns :
        commit(db, detach_block(new_batch, block))[col] = db[col]

\* C24: once get_block(h) has returned a block, every later get_block(h)
\* returns the same block, whatever batches are committed, and a committed
\* detach_block leaves the BLOCK_HEADER, BLOCK_BODY, BLOCK_UNCLE,
\* BLOCK_PROPOSAL_IDS and BLOCK_EXT rows unchanged.
C24_BlockPayloadStays == []DetachKeepsPayload /\ [][BlockReadsStay]_vars

\* a block with a BLOCK_EXT row was attached and detached, and get_block
\* returns it, its header from the cache
C24_Witness ==
    /\ JustDetached(BlockB1)
    /\ get_block("b1").ret = Some(BlockB1)
    /\ "b1" \in LruKeys(header_cache)
    /\ get_block_ext("b1") = Some(BlockExt(BlockB1, Some(TRUE)))

\* init was called and did not return Ok
InitFailed == IsSome(init_call) /\ Unwrap(init_call).ret # Ok

\* C27: when init does not return Ok, because a backend call returned an error
\* or because the capacity sum of the genesis overflowed, nothing was committed:
\* the store holds no row at all and every getter of a genesis row reports
\* absence.
C27_FailedInitLeavesNoRow ==
    InitFailed =>
        LET genesis == InitGenesis
            epoch == Unwrap(init_call).consensus.genesis_epoch_ext
        IN  /\ db = EmptyDb
            /\ get_block(genesis.header.hash).ret = None
            /\ get_block_ext(genesis.header.hash) = None
            /\ get_tip_header.ret = None
            /\ get_current_epoch_ext = None
            /\ get_block_epoch_index(genesis.header.hash) = None
            /\ get_epoch_ext(epoch.last_block_hash_in_previous_epoch) = None
            /\ get_epoch_index(epoch.number) = None
            /\ traverse_cell_set = {}
            /\ get_block_hash(genesis.header.number) = None
            /\ get_block_number(genesis.header.hash) = None
            /\ \A i \in TxIndexes(genesis) : get_transaction(TxAt(genesis, i).hash) = None

\* the last call on the batch of a genesis with transactions failed, after
\* every row had been put on the batch
C27_Witness ==
    /\ InitFailed
    /\ Unwrap(init_call).ret = Err("db")
    /\ Len(InitGenesis.transactions) = 2
    /\ Unwrap(init_call).fault = Len(init_batch(Unwrap(init_call).consensus)) + 1

\* the capacity sum of the genesis overflowed
C27_WitnessOverflow ==
    /\ InitFailed
    /\ IsPanic(Unwrap(init_call).ret)
    /\ Unwrap(init_call).fault = 0

\* the last committed batch ends with first(B) and then second(B)
BatchEndsWith(first, second, block) ==
    /\ Len(last_batch) >= 2
    /\ last_batch[Len(last_batch) - 1] = [op |-> first, block |-> block.header.hash]
    /\ last_batch[Len(last_batch)] = [op |-> second, block |-> block.header.hash]

\* no row that attach_block(block) writes is there
AttachRowsAbsent(block) ==
    /\ \A k \in AttachKeys(block) : k[2] \notin DOMAIN db[k[1]]
    /\ get_block_hash(block.header.number) = None
    /\ get_block_number(block.header.hash) = None
    /\ \A i \in TxIndexes(block) :
           /\ get_transaction_address(TxAt(block, i).hash) = None
           /\ \A j \in OutIndexes(TxAt(block, i)) : get_cell_meta(TxAt(block, i).hash, j) = None
    /\ \A u \in UncleHashesOf(block) : ~is_uncle(u)

\* every row that attach_block(block) writes is there and names the block
AttachRowsPresent(block) ==
    /\ \A k \in AttachKeys(block) : k[2] \in DOMAIN db[k[1]]
    /\ get_block_hash(block.header.number) = Some(block.header.hash)
    /\ get_block_number(block.header.hash) = Some(block.header.number)
    /\ \A i \in TxIndexes(block) :
           /\ IsSome(get_transaction_address(TxAt(block, i).hash))
           /\ Unwrap(get_transaction_address(TxAt(block, i).hash)).block_hash
                  = block.header.hash
           /\ \A j \in OutIndexes(TxAt(block, i)) :
                  IsSome(get_cell_meta(TxAt(block, i).hash, j))
    /\ \A u \in UncleHashesOf(block) : is_uncle(u)

Checked(path) == IsSome(compat.log[path])
\* the operator was asked about the path and typed y or Y, blanks around it aside
Agreed(path) ==
    /\ Unwrap(compat.log[path]).prompted
    /\ trim(Unwrap(Unwrap(compat.log[path]).input)) \in {<<"y">>, <<"Y">>}

\* C30: check_db_compatibility changes what is at a path only when the path
\* existed, its open failed with the version-mismatch error and the operator
\* answered y or Y; a missing path, a database that opens, another open error
\* or any other answer leave the path as it was, and the operator is asked only
\* on a version mismatch.
C30_RemovesOnlyMismatchedOnYes ==
    \A path \in DbPaths :
        /\ ~Checked(path) => dirs[path] \in DirStates \ {"partial"}
        /\ Checked(path) =>
               /\ Unwrap(compat.log[path]).prompted <=>
                      Unwrap(compat.log[path]).before = "old"
               /\ dirs[path] # Unwrap(compat.log[path]).before =>
                      /\ Unwrap(compat.log[path]).before = "old"
                      /\ Agreed(path)

\* both paths held a database of another version: the operator answered y to
\* the first, which is gone, and something else to the second, which is there
C30_Witness ==
    /\ compat.pc = "done"
    /\ Unwrap(compat.log["db"]).before = "old"
    /\ Unwrap(compat.log["db"]).input = Some(<<"y", "\n">>)
    /\ dirs["db"] = "missing"
    /\ Unwrap(compat.log["indexer_db"]).before = "old"
    /\ Unwrap(compat.log["indexer_db"]).input = Some(<<"y", "e", "s", "\n">>)
    /\ dirs["indexer_db"] = "old"

\* thread t holds the Mutex of the cache
Holds(t, cache) == mutex[cache] = Some(t)

\* C25: no thread holds a cache Mutex while it reads the backend: a thread
\* holds the Mutex of a cache only between the probe that missed and the drop
\* of the guard, in a call that goes through that cache; at the read of the
\* backend, at the second lock, in the rest of get_block and outside a call it
\* holds none.
C25_NoLockAcrossBackendRead ==
    \A t \in ReaderThreads, cache \in Caches :
        Holds(t, cache) => At(t, "miss") /\ Unwrap(in_flight[t]).cache = cache

\* a thread is at the backend read of get_cell_output after a miss while the
\* other thread, which missed as well, holds the Mutex of the same cache
C25_Witness ==
    /\ At(1, "read")
    /\ Unwrap(in_flight[1]).op = "get_cell_output"
    /\ At(2, "miss")
    /\ Unwrap(in_flight[2]).op = "get_cell_output"
    /\ Holds(2, "cell_output_cache")

\* no thread holds both Mutexes, and no thread that is about to lock a Mutex
\* holds it already
NoDoubleLock ==
    \A t \in ReaderThreads :
        /\ ~(Holds(t, "header_cache") /\ Holds(t, "cell_output_cache"))
        /\ At(t, "lock") \/ At(t, "relock") => ~Holds(t, Unwrap(in_flight[t]).cache)

EntriesOf(cache, call) ==
    SelectSeq(cache, LAMBDA e : e[1] = CacheKey(call.cache, call.key))

\* thread t takes the step of the call it is in
Steps(t) == InFlight(t) /\ in_flight'[t] # in_flight[t]

\* neither cache holds more entries than the size it was made with
CachesBounded ==
    /\ Len(header_cache) <= config.header_cache_size
    /\ Len(cell_output_cache) <= config.cell_output_cache_size
\* the probe of a cache of size 0 misses, so that the call goes to the backend
ZeroSizedCacheMisses ==
    \A t \in ReaderThreads :
        At(t, "lock") /\ Steps(t) /\ SizeOf(Unwrap(in_flight[t]).cache) = 0 =>
            in_flight'[t] = Some([Unwrap(in_flight[t]) EXCEPT !.pc = "miss"])

\* C21: whatever the threads in get_block_header and get_cell_output do, the
\* header cache holds at most header_cache_size entries and the cell-output
\* cache at most cell_output_cache_size entries, sizes that no step changes;
\* a cache of size 0 holds nothing and every probe of it misses, so that the
\* call reads the backend.
C21_CachesStayWithinTheirSize ==
    /\ []CachesBounded
    /\ [][config' = config /\ ZeroSizedCacheMisses]_vars

\* a header cache of size 1 is full with b2 while thread 1 is about to put b1
\* in it, and thread 2 has read from the backend an output that the
\* cell-output cache of size 0 cannot keep
C21_Witness ==
    /\ config = StoreConfig(1, 0)
    /\ LruKeys(header_cache) = {"b2"}
    /\ At(1, "relock")
    /\ Unwrap(in_flight[1]).key = <<"b1">>
    /\ At(2, "relock")
    /\ Unwrap(in_flight[2]).cache = "cell_output_cache"
    /\ cell_output_cache = <<>>

\* a call that missed and read a value holds the value the backend has for
\* its key, which is what it returns
MissedCallsHoldBackendValue ==
    \A t \in ReaderThreads :
        At(t, "relock") =>
            Unwrap(in_flight[t]).value =
                backend_read(Unwrap(in_flight[t]).cache, Unwrap(in_flight[t]).key)
\* the cache the call of thread t went through holds, after the step, one
\* entry under the key of the call, with the value the call read
OneEntryAfter(t) ==
    LET call == Unwrap(in_flight[t])
    IN  EntriesOf(CacheOfNext(call.cache), call) =
            << <<CacheKey(call.cache, call.key), Unwrap(call.value)>> >>
NoEntryAfter(t) ==
    LET call == Unwrap(in_flight[t])
    IN  EntriesOf(CacheOfNext(call.cache), call) = <<>>

====
